---- MODULE Spec2Model ----
(***************************************************************************)
(* A model of zerofs: the bounded LRU disk cache (zerofs/cache.py), the    *)
(* versioned delayed task queue (zerofs/task_queue.py) and the filesystem  *)
(* operations that bind them (zerofs/fs.py, zerofs/file.py).               *)
(*                                                                         *)
(* The specifications share the definitions:                               *)
(*   SpecCache     the Cache object driven by its public methods,          *)
(*   SpecTQ        the TaskQueue object with its worker threads,           *)
(*   SpecDebounce  one task id submitted in a burst,                       *)
(*   SpecRun       TaskQueue from its constructor on, its calls noted,     *)
(*   SpecStop      a graceful stop with time running on, under fairness,   *)
(*   SpecFS        the ZeroFS object: tree, cache, queue and object store, *)
(*   SpecTrunc     SpecFS with truncate,                                   *)
(*   SpecDir       the Directory tree and the directory operations,        *)
(*   SpecLocks     the locks of ZeroFS and TaskQueue, one step per lock    *)
(*                 operation, under fairness,                              *)
(*   SpecCatchUp   writes and uploads with time running on, under fairness,*)
(*   SpecRace      two threads inside the Cache methods, one statement of  *)
(*                 cache.py per step.                                      *)
(*                                                                         *)
(* Methods that a caller under src/ names but no file under src/ defines   *)
(* (Cache.has, Cache._touch_file, Cache.add) are modelled from spec.md     *)
(* section 4.1 and are marked as such where they are defined.              *)
(***************************************************************************)
EXTENDS Integers, Sequences, FiniteSets, TLC

\* ------------------------------------------------------------------ bounds
\* Longest body handed to the cache in SpecCache.
MaxLen == 3
\* The quota of the cache of SpecCache (Cache.__init__ requires it positive).
CacheQuota == 2
\* The clock runs from 0 to MaxTime seconds.
MaxTime == 4
\* submit_task calls made in one behaviour of SpecTQ.
MaxSubmits == 2
\* submit_task calls for the one id of SpecDebounce.
BurstLen == 3
\* cancel_task calls made in one behaviour of SpecTQ.
MaxCancels == 1
\* Worker threads of the TaskQueue of SpecTQ (its num_workers).
NumWorkers == 2
\* num_retries of run_worker in SpecTQ (its default is 5; the backoff after
\* the i-th failure is 2^i seconds, so the clock bounds what can be run).
NumRetries == 1
\* The longest delay handed to submit_task.
MaxDelay == 2
\* Calls of the FUSE operations made in one behaviour of SpecFS.
MaxFuseCalls == 3
\* Uploads the object store accepts in one behaviour of SpecFS.
MaxUploads == 2
\* Worker threads of the TaskQueue of SpecFS (num_workers of ZeroFS).
FSWorkers == 1
\* The clock of SpecFS runs from 0 to MaxFSTime seconds.
MaxFSTime == 2
\* upload_delay of ZeroFS, in seconds.
UploadDelay == 1
\* Directory operations made in one behaviour of SpecDir.
MaxDirCalls == 3
\* The clock of SpecRun runs from 0 to MaxRunTime seconds: long enough for a
\* task to fail all its attempts, be put back and be called again.
MaxRunTime == 5
\* Calls the FUSE threads make in one behaviour of SpecLocks.
MaxLkCalls == 2
\* Uploads the object store accepts in one behaviour of SpecLocks.
MaxLkUploads == 1

\* ----------------------------------------------------------------- helpers
NoErr == ""

Max(x, y) == IF x >= y THEN x ELSE y

Min(x, y) == IF x <= y THEN x ELSE y

\* The elements of a sequence.
Range(s) == {s[i] : i \in 1..Len(s)}

\* A function without the key k.
DropKey(f, k) == [x \in (DOMAIN f) \ {k} |-> f[x]]

\* A function with the key k set to v.
PutKey(f, k, v) == [x \in (DOMAIN f) \cup {k} |-> IF x = k THEN v ELSE f[x]]

\* n bytes of value b.
Fill(n, b) == [i \in 1..n |-> b]

\* s[from+1 .. to] in Python's slice terms: s[from:to], clipped to the sequence.
Slice(s, from, to) == SubSeq(s, Min(from, Len(s)) + 1, Min(to, Len(s)))

\* list.remove(x): the list without its first occurrence of x.
RECURSIVE ListRemove(_, _)
ListRemove(s, x) ==
  IF s = <<>> THEN <<>>
  ELSE IF Head(s) = x THEN Tail(s)
  ELSE <<Head(s)>> \o ListRemove(Tail(s), x)

\* sum(d.values()) of a dict d.
RECURSIVE SumValues(_)
SumValues(f) ==
  IF DOMAIN f = {} THEN 0
  ELSE LET k == CHOOSE x \in DOMAIN f : TRUE
       IN f[k] + SumValues(DropKey(f, k))

\* What a call leaves behind: the cache after it, the exception it raised
\* (NoErr when it returned) and the value it returned.
Result(c, raised, ret) == [cache |-> c, raised |-> raised, ret |-> ret]

\* ------------------------------------------------------------------- Cache
\* A Cache object: index (id -> recorded size), touch_list (front = least
\* recently used), disk (the backing files of cache_dir, id -> body) and
\* cache_size (the quota in bytes).
NewCache(quota) ==
  [index |-> <<>>, touch_list |-> <<>>, disk |-> <<>>, cache_size |-> quota]

touch_file(c, file_id) ==
  [c EXCEPT !.touch_list =
     Append(IF file_id \in Range(c.touch_list)
            THEN ListRemove(c.touch_list, file_id)
            ELSE c.touch_list, file_id)]

\* Cache._touch_file, called by Cache.get: no file under src/ defines it.
\* From spec.md 4.1: "Touch: remove the id from touch_order wherever it is,
\* then append at the back."
_touch_file(c, file_id) ==
  [c EXCEPT !.touch_list =
     Append(SelectSeq(c.touch_list, LAMBDA x : x # file_id), file_id)]

used_disk_space(c) == SumValues(c.index)

\* Cache._recover_disk_space evicting from the back of the touch list.
RECURSIVE _recover_disk_space_mru(_)
_recover_disk_space_mru(c) ==
  IF used_disk_space(c) > c.cache_size
  THEN IF c.touch_list = <<>>
       THEN Result(c, "IndexError", <<>>)
       ELSE LET n == Len(c.touch_list)
                lru_file == c.touch_list[n]
                c1 == [c EXCEPT !.touch_list = SubSeq(c.touch_list, 1, n - 1)]
            IN IF lru_file \notin DOMAIN c1.disk
               THEN Result(c1, "FileNotFoundError", <<>>)
               ELSE LET c2 == [c1 EXCEPT !.disk = DropKey(c1.disk, lru_file)]
                    IN IF lru_file \notin DOMAIN c2.index
                       THEN Result(c2, "KeyError", <<>>)
                       ELSE _recover_disk_space_mru(
                              [c2 EXCEPT !.index = DropKey(c2.index, lru_file)])
  ELSE Result(c, NoErr, <<>>)

\* While over quota: pop the front of the touch list, remove its backing
\* file (os.remove raises when there is none), delete its index entry.
RECURSIVE _recover_disk_space(_)
_recover_disk_space(c) ==
  IF used_disk_space(c) > c.cache_size
  THEN IF c.touch_list = <<>>
       THEN Result(c, "IndexError", <<>>)
       ELSE LET lru_file == Head(c.touch_list)
                c1 == [c EXCEPT !.touch_list = Tail(c.touch_list)]
            IN IF lru_file \notin DOMAIN c1.disk
               THEN Result(c1, "FileNotFoundError", <<>>)
               ELSE LET c2 == [c1 EXCEPT !.disk = DropKey(c1.disk, lru_file)]
                    IN IF lru_file \notin DOMAIN c2.index
                       THEN Result(c2, "KeyError", <<>>)
                       ELSE _recover_disk_space(
                              [c2 EXCEPT !.index = DropKey(c2.index, lru_file)])
  ELSE Result(c, NoErr, <<>>)

_add_to_index(c, file_id, content_size) ==
  LET c1 == touch_file(c, file_id)
      c2 == [c1 EXCEPT !.index = PutKey(c1.index, file_id, content_size)]
  IN _recover_disk_space(c2)

contains(c, file_id) == file_id \in DOMAIN c.index

\* Cache.has, called by Cache.get and by fs.py: no file under src/ defines
\* it. From spec.md 4.1: "contains(id) -> bool: membership test on index".
has(c, file_id) == file_id \in DOMAIN c.index

\* Cache.add_file recording one byte less than it wrote.
add_file_short(c, file_id, contents) ==
  _add_to_index([c EXCEPT !.disk = PutKey(c.disk, file_id, contents)],
                file_id, Max(Len(contents) - 1, 0))

\* b2_utils.write_file(file_path, contents), then _add_to_index.
add_file(c, file_id, contents) ==
  _add_to_index([c EXCEPT !.disk = PutKey(c.disk, file_id, contents)],
                file_id, Len(contents))

\* open(path, 'r+b'); seek(offset); write(data): a seek past the end leaves
\* a gap of NUL bytes. The index is not touched.
update(c, file_id, data, offset) ==
  IF ~(offset > 0) THEN Result(c, "AssertionError", 0)
  ELSE IF ~contains(c, file_id) THEN Result(c, "KeyError", 0)
  ELSE LET c1 == touch_file(c, file_id)
       IN IF file_id \notin DOMAIN c1.disk
          THEN Result(c1, "FileNotFoundError", 0)
          ELSE LET old == c1.disk[file_id]
                   new == Slice(old, 0, offset)
                            \o Fill(Max(offset - Len(old), 0), 0)
                            \o data
                            \o Slice(old, offset + Len(data), Len(old))
               IN Result([c1 EXCEPT !.disk = PutKey(c1.disk, file_id, new)],
                         NoErr, Len(data))

\* Cache.get(file_id) with the default offset 0 and size None: the whole
\* backing file.
get(c, file_id) ==
  IF ~has(c, file_id) THEN Result(c, "KeyError", <<>>)
  ELSE LET c1 == _touch_file(c, file_id)
       IN IF file_id \notin DOMAIN c1.disk
          THEN Result(c1, "FileNotFoundError", <<>>)
          ELSE Result(c1, NoErr, c1.disk[file_id])

\* os.remove(file_path); del self.index[file_id]. The touch list is left
\* as it is.
delete(c, file_id) ==
  IF file_id \notin DOMAIN c.disk THEN Result(c, "FileNotFoundError", <<>>)
  ELSE LET c1 == [c EXCEPT !.disk = DropKey(c.disk, file_id)]
       IN IF file_id \notin DOMAIN c1.index
          THEN Result(c1, "KeyError", <<>>)
          ELSE Result([c1 EXCEPT !.index = DropKey(c1.index, file_id)],
                      NoErr, <<>>)

\* --------------------------------------------------------------- TaskQueue
\* str(uuid4()) of the n-th File that touch makes.
uuid4(n) == "u" \o ToString(n)

\* response['fileId'] of the n-th upload; fileId(0) is the id of the file
\* the bucket holds at mount time.
fileId(n) == "s" \o ToString(n)

\* Python's order on the task ids used here: the file ids of SpecFS, then
\* "x" < "y".
IdOrder ==
  [i \in 1..(MaxUploads + 1) |-> fileId(i - 1)]
    \o [i \in 1..(MaxFuseCalls + 1) |-> uuid4(i)]
    \o <<"x", "y">>

IdRank(task_id) == CHOOSE i \in 1..Len(IdOrder) : IdOrder[i] = task_id

\* A queue entry: (time_to_run, (task_id, task_version, fn, args, kwargs)),
\* or the sentinel (float('inf'), Signal.STOP) when stop holds.
Entry(time_to_run, task_id, task_version, fn, args) ==
  [stop |-> FALSE, time |-> time_to_run, task_id |-> task_id,
   version |-> task_version, fn |-> fn, args |-> args]

StopEntry ==
  [stop |-> TRUE, time |-> 0, task_id |-> "", version |-> 0, fn |-> "",
   args |-> 0]

NoTask ==
  [stop |-> FALSE, time |-> 0, task_id |-> "", version |-> 0, fn |-> "",
   args |-> 0]

\* a < b as PriorityQueue compares the tuples: by time_to_run (inf for the
\* sentinel), then by task id, then by version.
EntryBefore(a, b) ==
  IF a.stop \/ b.stop THEN ~a.stop /\ b.stop
  ELSE \/ a.time < b.time
       \/ a.time = b.time /\ IdRank(a.task_id) < IdRank(b.task_id)
       \/ a.time = b.time /\ a.task_id = b.task_id /\ a.version < b.version

\* Queue.put: the queue is kept in the order get() hands its entries out.
RECURSIVE put(_, _)
put(q, e) ==
  IF q = <<>> THEN <<e>>
  ELSE IF EntryBefore(e, Head(q)) THEN <<e>> \o q
  ELSE <<Head(q)>> \o put(Tail(q), e)

RECURSIVE put_n(_, _, _)
put_n(q, e, n) == IF n = 0 THEN q ELSE put_n(put(q, e), e, n - 1)

\* The check run_worker makes under task_locks[task_id].
superseded(versions, task) == versions[task.task_id] > task.version

\* The second check of run_worker left out.
never_superseded(versions, task) == FALSE

\* The check run_worker makes after its sleep.
superseded_after_sleep(versions, task) == superseded(versions, task)

\* The sleep without its floor of one second.
time_to_sleep_remaining(time_to_run, t) == Max(0, time_to_run - t)

\* The sleep before the second check left out.
time_to_sleep_none(time_to_run, t) == 0

\* time_to_sleep = max(1, time_to_run - time())
time_to_sleep(time_to_run, t) == Max(1, time_to_run - t)

\* cancel_task leaving the version as it is.
cancel_task_no_bump(version) == version

\* cancel_task: self.tasks[task_id] += 1
cancel_task(version) == version + 1

\* 2**i
RECURSIVE Pow2(_)
Pow2(i) == IF i = 0 THEN 1 ELSE 2 * Pow2(i - 1)

\* start without its check of run_state.
start_raises_never(state) == NoErr

\* The exception start raises. (Signal and RunState are written as strings.)
start_raises(state) == IF state = "RUNNING" THEN "ValueError" ELSE NoErr

\* The exception stop raises: PriorityQueue has no clear(), so
\* stop(finish_ongoing_tasks=False) raises AttributeError inside the mutex
\* block, before any sentinel is put.
stop_raises(state, finish_ongoing_tasks) ==
  IF state = "STOPPED" THEN "ValueError"
  ELSE IF ~finish_ongoing_tasks THEN "AttributeError"
  ELSE NoErr

\* The exception submit_task raises.
submit_task_raises(state) == IF state = "STOPPED" THEN "ValueError" ELSE NoErr

\* A worker thread: pc is its place in run_worker.
\*   none      not started          get       blocked in queue.get()
\*   check1    before the first version check
\*   sleeping  in sleep(time_to_sleep) until wake_at, or past it and before
\*             the second version check
\*   run       about to call fn (attempt counts the failed calls so far)
\*   in_fn     inside fn
\*   backoff   in sleep(backoff) until wake_at
\*   exited    left the loop on the STOP sentinel
\* checked is an observer: latest_version as the second check read it.
\* got_at is an observer: time() when queue.get() returned the task, kept
\* where the calls are noted.
\* fn_pc, file and content are the place and the locals of _upload_file.
NewWorker ==
  [pc |-> "none", task |-> NoTask, wake_at |-> 0, attempt |-> 0,
   checked |-> 0, got_at |-> 0, fn_pc |-> "", file |-> 0, content |-> <<>>]

\* fn returned: finished = True, break, task_done, next loop iteration.
fn_returned(w) == [NewWorker EXCEPT !.pc = "get"]

\* The task dropped after its last failed attempt.
put_back_none(q, task) == q

\* if not finished: self.queue.put(task), the tuple as it was taken.
put_back(q, task) == put(q, task)

\* fn raised: log, sleep(backoff) with backoff = 2**attempt.
fn_raised(w, t) ==
  [w EXCEPT !.pc = "backoff", !.wake_at = t + Pow2(w.attempt), !.fn_pc = "",
            !.file = 0, !.content = <<>>]

\* ------------------------------------------------------------------- state
VARIABLES
  cache,       \* the Cache object
  recency,     \* observer: ids of the index, least recently used first
  last,        \* observer: the last call on the cache, the index before it and
               \* (after_get) the id a get returned for right before it
  num_workers, \* TaskQueue.num_workers
  run_state,   \* TaskQueue.run_state
  tasks,       \* TaskQueue.tasks: task id -> latest version
  queue,       \* TaskQueue.queue, as the order in which get() hands entries out
  workers,     \* the worker threads: where each is in run_worker, and its task
  stopper,     \* whether a stop() call is waiting in thread.join()
  now,         \* time(), in seconds
  ncalls,      \* observer: submit_task and cancel_task calls made so far
  cancelled,   \* observer: ids cancelled and not submitted again since
  burst,       \* observer: per id, its submissions, whether all came early,
               \* and the calls of fn made for it
  api,         \* observer: the last call of start, stop, submit_task or
               \* cancel_task and the exception it raised
  root,        \* ZeroFS.root: path -> place of its File in files (0: no entry)
  files,       \* the File objects made so far
  b2,          \* the object store: objects by file id, and the uploads so far
  fuse,        \* the FUSE thread: the call it is in or has just finished
  dirs,        \* the Directory objects of the tree: loaded and files, by name
  dcall,       \* observer: the last directory operation and what it returned
  lk,          \* the locks: who holds each, and where each thread is between them
  race         \* threads inside Cache methods: the call and statement of each

cacheVars == <<cache, recency, last>>

tqVars == <<num_workers, run_state, tasks, queue, workers, stopper, now>>

tqObs == <<ncalls, cancelled, burst, api>>

fsVars == <<root, files, b2, fuse, dirs, dcall, lk, race>>

vars == <<cacheVars, tqVars, tqObs, fsVars>>

\* ------------------------------------------------------------ construction
NoCall == [op |-> "none", file_id |-> "", arg |-> <<>>, raised |-> NoErr,
           pre_index |-> <<>>, pre_recency |-> <<>>,
           after_get |-> ""]

\* Cache.__init__
InitCacheVars(quota) ==
  /\ cache = NewCache(quota)
  /\ recency = <<>>
  /\ last = NoCall

TaskIds == {"x", "y"}

Delays == {0, MaxDelay}

Workers == 1..NumWorkers

BurstId == "x"

\* The observer counts the calls of fn for an id up to this many: one more
\* than a task makes when it fails all its attempts and is taken again.
MaxCallsNoted == NumRetries + 3

\* Nothing submitted yet. first_ready and min_ready are the ready time of the
\* first submission and the earliest ready time of all; early_first and
\* early_min say that every later submission came before that time; n counts
\* the submissions and last_args are the arguments of the last one; calls
\* counts the calls of fn and called_args are the arguments of the last one.
NoBurst ==
  [n |-> 0, first_ready |-> 0, min_ready |-> 0, early_first |-> TRUE,
   early_min |-> TRUE,
   last_args |-> 0, failed |-> FALSE, cancelled |-> FALSE, calls |-> 0,
   called_args |-> 0]

\* No call noted yet. on says whether the calls are noted at all; flip
\* changes with every call noted; arg is finish_ongoing_tasks of a stop.
NoApi ==
  [on |-> FALSE, op |-> "none", arg |-> "", raised |-> NoErr, flip |-> FALSE]

\* TaskQueue.__init__: stopped, no task, no thread. tasks is a defaultdict:
\* ids are the ids the behaviour can come to use.
InitQueue(n, ids) ==
  /\ num_workers = n
  /\ run_state = "STOPPED"
  /\ tasks = [t \in ids |-> 0]
  /\ queue = <<>>
  /\ workers = [w \in Workers |-> NewWorker]
  /\ stopper = "none"
  /\ now = 0
  /\ ncalls = [submit |-> 0, cancel |-> 0]
  /\ cancelled = [t \in ids |-> FALSE]
  /\ burst = [t \in ids |-> NoBurst]

\* TaskQueue.__init__ with its calls not noted.
InitTQVars(n, ids) == InitQueue(n, ids) /\ api = NoApi

Paths == {"/a", "/b"}

\* A File object.
File(name, file_id, st_size) ==
  [name |-> name, file_id |-> file_id, st_size |-> st_size]

NoCallYet ==
  [op |-> "none", pc |-> "done", old |-> "", path |-> "", data |-> <<>>,
   offset |-> 0, content |-> <<>>, raised |-> NoErr, n |-> 0]

\* Names are kept as name.split('/'): '' is <<"">>, 'd/' is <<"d", "">>,
\* 'd/x' is <<"d", "x">>. The names of the Directory objects: the root, ''
\* (fs.py), and the folder 'd/' of the bucket listing.
DirNames == {<<"">>, <<"d", "">>}

\* Directory.__init__ for each name: files = {}, loaded = False. made counts
\* the File objects that touch has made.
NewTree ==
  [loaded |-> [d \in DirNames |-> FALSE],
   files |-> [d \in DirNames |-> <<>>],
   made |-> 0]

NoDirCall ==
  [op |-> "none", path |-> <<>>, new |-> <<>>, raised |-> NoErr, ret |-> 0,
   n |-> 0, pre |-> NewTree, pre_cache |-> <<>>]

\* ------------------------------------------------------------------- locks
\* The threads that take locks: two FUSE threads and one queue worker.
LkFuse == {"fuse1", "fuse2"}

LkWorkers == {"worker1"}

LkThreads == LkFuse \cup LkWorkers

\* file_locks and task_locks are keyed by file id; the n-th accepted upload
\* gives the file the id n.
LkIds == 0..MaxLkUploads

\* ZeroFS.file_locks, TaskQueue.task_locks and TaskQueue.queue.mutex
LkLocks == ({"file", "task"} \X LkIds) \cup {<<"mutex", 0>>}

NoLock == <<"none", 0>>

\* ZeroFS.read, as the lock operations and the calls between them
read_steps == <<"with_file", "download_file", "cache", "unlock_file">>

\* TaskQueue.submit_task
submit_task_steps ==
  <<"with_task", "bump", "unlock_task", "with_mutex", "put", "unlock_mutex">>

\* TaskQueue.cancel_task
cancel_task_steps == <<"with_task", "bump", "unlock_task">>

\* A write that reads the body inside the file's lock.
write_steps_readlink_locked ==
  <<"with_file">> \o read_steps \o <<"cache", "task_id">> \o
  submit_task_steps \o <<"unlock_file">>

\* ZeroFS.write: readlink reads the body, then the body is replaced and the
\* upload submitted under the file's lock.
write_steps ==
  read_steps \o <<"with_file", "cache", "task_id">> \o submit_task_steps \o
  <<"unlock_file">>

\* ZeroFS.unlink and ZeroFS._delete_file
unlink_steps == <<"delete_file", "cache">>

\* ZeroFS.rename: readlink, unlink, create, write
rename_steps == read_steps \o unlink_steps \o <<"create">> \o write_steps

\* ZeroFS._upload_file
_upload_file_steps ==
  <<"cache", "with_file", "upload_file", "cache", "update", "cache",
    "unlock_file">>

\* What run_worker does once fn has returned.
task_done_steps == <<"with_mutex", "task_done", "unlock_mutex", "loop">>

\* One round of the loop of TaskQueue.run_worker, with fn = _upload_file.
run_worker_steps ==
  <<"with_mutex", "get", "unlock_mutex",
    "with_task", "check", "unlock_task", "sleep",
    "with_task", "check", "unlock_task", "fn">> \o
  _upload_file_steps \o <<"fn_end">> \o task_done_steps

\* The calls a FUSE thread makes.
LkOps == {"read", "write", "rename", "unlink", "submit_task", "cancel_task"}

LkSteps(op) ==
  CASE op = "read" -> read_steps
    [] op = "write" -> write_steps
    [] op = "rename" -> rename_steps
    [] op = "unlink" -> unlink_steps
    [] op = "submit_task" -> submit_task_steps
    [] op = "cancel_task" -> cancel_task_steps

\* No lock held, the FUSE threads between two calls, the worker at the top of
\* its loop, one file that was never uploaded.
NoLocks ==
  [holder |-> [l \in LkLocks |-> ""],
   th |-> [t \in LkThreads |->
             [prog |-> IF t \in LkWorkers THEN run_worker_steps ELSE <<>>,
              want |-> NoLock, task_id |-> 0, in_fn |-> FALSE]],
   file_id |-> 0,
   queue |-> <<>>,
   calls |-> 0]

\* ----------------------------------------------------- threads in the Cache
\* The threads that call the cache at the same time.
RaceThreads == {1, 2}

\* A thread that has made no call yet.
NoCacheCall ==
  [op |-> "", file_id |-> "", data |-> <<>>, offset |-> 0, pc |-> "idle",
   lru_file |-> "", raised |-> NoErr, ret |-> <<>>]

\* No thread is in the cache; start is the cache the threads find.
NewRace(c) == [start |-> c, th |-> [t \in RaceThreads |-> NoCacheCall]]

NoRace == NewRace(NewCache(CacheQuota))

\* No ZeroFS: the filesystem variables of the specifications without one.
InitFSVars ==
  /\ root = [p \in Paths |-> 0]
  /\ files = <<>>
  /\ b2 = [objects |-> <<>>, uploads |-> 0, deletes |-> {}]
  /\ fuse = NoCallYet
  /\ dirs = NewTree
  /\ dcall = NoDirCall
  /\ lk = NoLocks
  /\ race = NoRace

\* --------------------------------------------------------------- SpecCache
CacheIds == {"a", "b", "c"}

CacheContents == {Fill(n, 1) : n \in 0..MaxLen}

UpdateData == {<<2>>}

UpdateOffsets == {0, 1}

\* The observer's order of use: a call that used file_id moves it to the
\* back; ids that left the index leave the order.
Used(order, file_id, index) ==
  SelectSeq(Append(SelectSeq(order, LAMBDA x : x # file_id), file_id),
            LAMBDA x : x \in DOMAIN index)

Kept(order, index) == SelectSeq(order, LAMBDA x : x \in DOMAIN index)

Record(op, file_id, arg, r) ==
  [op |-> op, file_id |-> file_id, arg |-> arg, raised |-> r.raised,
   pre_index |-> cache.index, pre_recency |-> recency,
   after_get |-> IF last.op = "get" /\ last.raised = NoErr
                 THEN last.file_id ELSE ""]

InitCache ==
  /\ InitCacheVars(CacheQuota)
  /\ InitTQVars(NumWorkers, TaskIds)
  /\ InitFSVars

CacheAddFile(file_id, contents) ==
  LET r == add_file(cache, file_id, contents)
  IN /\ cache' = r.cache
     /\ recency' = Used(recency, file_id, r.cache.index)
     /\ last' = Record("add_file", file_id, contents, r)
     /\ UNCHANGED <<tqVars, tqObs, fsVars>>

CacheUpdate(file_id, data, offset) ==
  LET r == update(cache, file_id, data, offset)
  IN /\ cache' = r.cache
     /\ recency' = IF r.raised = NoErr
                   THEN Used(recency, file_id, r.cache.index)
                   ELSE Kept(recency, r.cache.index)
     /\ last' = Record("update", file_id, data, r)
     /\ UNCHANGED <<tqVars, tqObs, fsVars>>

CacheGet(file_id) ==
  LET r == get(cache, file_id)
  IN /\ cache' = r.cache
     /\ recency' = IF r.raised = NoErr
                   THEN Used(recency, file_id, r.cache.index)
                   ELSE Kept(recency, r.cache.index)
     /\ last' = Record("get", file_id, <<>>, r)
     /\ UNCHANGED <<tqVars, tqObs, fsVars>>

CacheDelete(file_id) ==
  LET r == delete(cache, file_id)
  IN /\ cache' = r.cache
     /\ recency' = Kept(recency, r.cache.index)
     /\ last' = Record("delete", file_id, <<>>, r)
     /\ UNCHANGED <<tqVars, tqObs, fsVars>>

NextCache ==
  \/ \E file_id \in CacheIds, contents \in CacheContents :
       CacheAddFile(file_id, contents)
  \/ \E file_id \in CacheIds, data \in UpdateData, offset \in UpdateOffsets :
       CacheUpdate(file_id, data, offset)
  \/ \E file_id \in CacheIds : CacheGet(file_id)
  \/ \E file_id \in CacheIds : CacheDelete(file_id)

SpecCache == InitCache /\ [][NextCache]_vars

\* ------------------------------------------------------------------ SpecTQ
InitTQ ==
  /\ InitCacheVars(CacheQuota)
  /\ InitTQVars(NumWorkers, TaskIds)
  /\ InitFSVars

\* The observer's note of a call op(arg) that raised the exception raised.
Noted(op, arg, raised) ==
  IF api.on
  THEN [on |-> TRUE, op |-> op, arg |-> arg, raised |-> raised,
        flip |-> ~api.flip]
  ELSE api

\* time() moves on, up to the time last.
TickTo(last_time) ==
  /\ now < last_time
  /\ now' = now + 1
  /\ UNCHANGED <<cacheVars, fsVars, num_workers, run_state, tasks, queue, workers, stopper, tqObs>>

Tick == TickTo(MaxTime)

\* TaskQueue.start
Start ==
  /\ IF start_raises(run_state) # NoErr
     THEN UNCHANGED <<run_state, workers>>
     ELSE /\ workers' = [w \in Workers |->
                          IF w <= num_workers
                          THEN [NewWorker EXCEPT !.pc = "get"]
                          ELSE NewWorker]
          /\ run_state' = "RUNNING"
  /\ api' = Noted("start", "", start_raises(run_state))
  /\ UNCHANGED <<cacheVars, fsVars, num_workers, tasks, queue, stopper, now,
                 ncalls, cancelled, burst>>

\* TaskQueue.stop up to its joins.
Stop(finish_ongoing_tasks) ==
  /\ stopper = "none"
  /\ IF stop_raises(run_state, finish_ongoing_tasks) # NoErr
     THEN UNCHANGED <<queue, stopper>>
     ELSE /\ queue' = put_n(queue, StopEntry, num_workers)
          /\ stopper' = "joining"
  /\ api' = Noted("stop", IF finish_ongoing_tasks THEN "True" ELSE "False",
                  stop_raises(run_state, finish_ongoing_tasks))
  /\ UNCHANGED <<cacheVars, fsVars, num_workers, run_state, tasks, workers, now,
                 ncalls, cancelled, burst>>

\* TaskQueue.stop once every thread.join() has returned.
StopJoined ==
  /\ stopper = "joining"
  /\ \A w \in 1..num_workers : workers[w].pc = "exited"
  /\ run_state' = "STOPPED"
  /\ stopper' = "none"
  /\ UNCHANGED <<cacheVars, fsVars, num_workers, tasks, queue, workers, now, tqObs>>

\* The observer's note of a submission made now and ready at ready.
Submitted(b, ready, args) ==
  [b EXCEPT
     !.n = b.n + 1,
     !.first_ready = IF b.n = 0 THEN ready ELSE b.first_ready,
     !.min_ready = IF b.n = 0 THEN ready ELSE Min(b.min_ready, ready),
     !.early_first = b.early_first /\ (b.n = 0 \/ now < b.first_ready),
     !.early_min = b.early_min /\ (b.n = 0 \/ now < b.min_ready),
     !.last_args = args]

\* TaskQueue.submit_task. The put follows the version bump outside the lock;
\* a worker cannot tell an entry not yet put from one it has not yet taken,
\* so both are one step here.
SubmitTask(task_id, delay) ==
  /\ IF submit_task_raises(run_state) # NoErr
     THEN UNCHANGED <<tasks, queue, ncalls, cancelled, burst>>
     ELSE LET task_version == tasks[task_id] + 1
              args == ncalls.submit + 1
          IN /\ tasks' = [tasks EXCEPT ![task_id] = task_version]
             /\ queue' = put(queue, Entry(now + delay, task_id, task_version,
                                          "fn", args))
             /\ ncalls' = [ncalls EXCEPT !.submit = @ + 1]
             /\ cancelled' = [cancelled EXCEPT ![task_id] = FALSE]
             /\ burst' = [burst EXCEPT ![task_id] =
                            Submitted(@, now + delay, args)]
  /\ api' = Noted("submit_task", "", submit_task_raises(run_state))
  /\ UNCHANGED <<cacheVars, fsVars, num_workers, run_state, workers, stopper, now>>

\* TaskQueue.cancel_task
CancelTask(task_id) ==
  /\ tasks' = [tasks EXCEPT ![task_id] = cancel_task(@)]
  /\ ncalls' = [ncalls EXCEPT !.cancel = @ + 1]
  /\ cancelled' = [cancelled EXCEPT ![task_id] = TRUE]
  /\ burst' = [burst EXCEPT ![task_id].cancelled = TRUE]
  /\ api' = Noted("cancel_task", "", NoErr)
  /\ UNCHANGED <<cacheVars, fsVars, num_workers, run_state, queue, workers, stopper, now>>

\* run_worker: task = self.queue.get(); leave on the STOP sentinel.
WorkerGet(w) ==
  /\ workers[w].pc = "get"
  /\ queue # <<>>
  /\ queue' = Tail(queue)
  /\ workers' = [workers EXCEPT ![w] =
       IF Head(queue).stop THEN [NewWorker EXCEPT !.pc = "exited"]
       ELSE [NewWorker EXCEPT !.pc = "check1", !.task = Head(queue),
                              !.got_at = IF api.on THEN now ELSE 0]]
  /\ UNCHANGED <<cacheVars, fsVars, num_workers, run_state, tasks, stopper, now, tqObs>>

\* run_worker: the first version check, then the start of the sleep.
WorkerCheck1(w) ==
  /\ workers[w].pc = "check1"
  /\ workers' = [workers EXCEPT ![w] =
       IF superseded(tasks, workers[w].task)
       THEN [NewWorker EXCEPT !.pc = "get"]
       ELSE [workers[w] EXCEPT
               !.pc = "sleeping",
               !.wake_at = now + time_to_sleep(workers[w].task.time, now)]]
  /\ UNCHANGED <<cacheVars, fsVars, num_workers, run_state, tasks, queue, stopper, now, tqObs>>

\* run_worker: sleep(time_to_sleep) has returned; the second version check.
WorkerCheck2(w) ==
  /\ workers[w].pc = "sleeping"
  /\ now >= workers[w].wake_at
  /\ workers' = [workers EXCEPT ![w] =
       IF superseded_after_sleep(tasks, workers[w].task)
       THEN [NewWorker EXCEPT !.pc = "get"]
       ELSE [workers[w] EXCEPT
               !.pc = "run", !.attempt = 0,
               !.checked = tasks[workers[w].task.task_id]]]
  /\ UNCHANGED <<cacheVars, fsVars, num_workers, run_state, tasks, queue, stopper, now, tqObs>>

\* run_worker: fn(*args, **kwargs) is called.
WorkerCall(w) ==
  /\ workers[w].pc = "run"
  /\ workers' = [workers EXCEPT ![w].pc = "in_fn", ![w].fn_pc = "start"]
  /\ burst' = [burst EXCEPT
       ![workers[w].task.task_id].calls = Min(@ + 1, MaxCallsNoted),
       ![workers[w].task.task_id].called_args = workers[w].task.args]
  /\ UNCHANGED <<cacheVars, fsVars, num_workers, run_state, tasks, queue, stopper, now, ncalls,
                 cancelled, api>>

\* The fn of SpecTQ returns.
FnReturn(w) ==
  /\ workers[w].pc = "in_fn"
  /\ workers[w].task.fn = "fn"
  /\ workers' = [workers EXCEPT ![w] = fn_returned(@)]
  /\ UNCHANGED <<cacheVars, fsVars, num_workers, run_state, tasks, queue, stopper, now, tqObs>>

\* The fn of SpecTQ raises.
FnRaise(w) ==
  /\ workers[w].pc = "in_fn"
  /\ workers[w].task.fn = "fn"
  /\ workers' = [workers EXCEPT ![w] = fn_raised(@, now)]
  /\ burst' = [burst EXCEPT ![workers[w].task.task_id].failed = TRUE]
  /\ UNCHANGED <<cacheVars, fsVars, num_workers, run_state, tasks, queue, stopper, now, ncalls,
                 cancelled, api>>

\* run_worker: sleep(backoff) returns; the next attempt, or after the last
\* one the task is put back and the loop goes on.
WorkerBackoffDone(w) ==
  /\ workers[w].pc = "backoff"
  /\ now >= workers[w].wake_at
  /\ IF workers[w].attempt < NumRetries
     THEN /\ workers' = [workers EXCEPT ![w].pc = "run",
                                        ![w].attempt = @ + 1]
          /\ UNCHANGED queue
     ELSE /\ queue' = put_back(queue, workers[w].task)
          /\ workers' = [workers EXCEPT ![w] = [NewWorker EXCEPT !.pc = "get"]]
  /\ UNCHANGED <<cacheVars, fsVars, num_workers, run_state, tasks, stopper, now, tqObs>>

NextTQ ==
  \/ Tick
  \/ Start
  \/ \E finish_ongoing_tasks \in BOOLEAN : Stop(finish_ongoing_tasks)
  \/ StopJoined
  \/ /\ ncalls.submit < MaxSubmits
     /\ \E task_id \in TaskIds, delay \in Delays : SubmitTask(task_id, delay)
  \/ /\ ncalls.cancel < MaxCancels
     /\ \E task_id \in TaskIds : CancelTask(task_id)
  \/ \E w \in Workers : WorkerGet(w)
  \/ \E w \in Workers : WorkerCheck1(w)
  \/ \E w \in Workers : WorkerCheck2(w)
  \/ \E w \in Workers : WorkerCall(w)
  \/ \E w \in Workers : WorkerBackoffDone(w)
  \/ \E w \in Workers : FnReturn(w)
  \/ \E w \in Workers : FnRaise(w)

SpecTQ == InitTQ /\ [][NextTQ]_vars

\* ----------------------------------------------------------------- SpecRun
\* TaskQueue.__init__(num_workers) checks nothing: it raises for no value.
TaskQueue_init_raises(n) == NoErr

\* TaskQueue(num_workers) for num_workers from 0 on, driven through start,
\* stop and submit_task, each call noted with the exception it raised.
InitRun ==
  /\ InitCacheVars(CacheQuota)
  /\ \E n \in 0..NumWorkers :
       /\ TaskQueue_init_raises(n) = NoErr
       /\ InitQueue(n, TaskIds)
  /\ api = [NoApi EXCEPT !.on = TRUE]
  /\ InitFSVars

NextRun ==
  \/ TickTo(MaxRunTime)
  \/ Start
  \/ \E finish_ongoing_tasks \in BOOLEAN : Stop(finish_ongoing_tasks)
  \/ StopJoined
  \/ /\ ncalls.submit < MaxSubmits
     /\ \E delay \in Delays : SubmitTask(BurstId, delay)
  \/ \E w \in Workers : WorkerGet(w)
  \/ \E w \in Workers : WorkerCheck1(w)
  \/ \E w \in Workers : WorkerCheck2(w)
  \/ \E w \in Workers : WorkerCall(w)
  \/ \E w \in Workers : WorkerBackoffDone(w)
  \/ \E w \in Workers : FnReturn(w)
  \/ \E w \in Workers : FnRaise(w)

SpecRun == InitRun /\ [][NextRun]_vars

\* ---------------------------------------------------------------- SpecStop
\* A time stamp one second further in the past; a stamp MaxTime or more
\* behind now is kept as MaxTime behind.
Back(t) == IF t > 0 THEN t - 1 ELSE 0

\* time() moves on past last_time: now is kept there and every time stamp
\* moves one second back instead, which leaves time_to_run - time() and the
\* end of every running sleep as they are.
TickShiftAt(last_time) ==
  /\ now = last_time
  /\ queue' = [i \in 1..Len(queue) |-> [queue[i] EXCEPT !.time = Back(@)]]
  /\ workers' = [w \in Workers |->
                  [workers[w] EXCEPT !.task.time = Back(@),
                                     !.wake_at = Back(@),
                                     !.got_at = Back(@)]]
  /\ burst' = [t \in DOMAIN burst |->
                [burst[t] EXCEPT !.first_ready = Back(@),
                                 !.min_ready = Back(@)]]
  /\ UNCHANGED <<cacheVars, fsVars, num_workers, run_state, tasks, stopper, now,
                 ncalls, cancelled, api>>

TickShift == TickShiftAt(MaxTime)

\* A queue that is started, given tasks and stopped with
\* stop(finish_ongoing_tasks=True), with time running on without end.
NextStop ==
  \/ TickTo(MaxTime)
  \/ TickShift
  \/ Start
  \/ Stop(TRUE)
  \/ StopJoined
  \/ /\ ncalls.submit < MaxSubmits
     /\ \E delay \in Delays : SubmitTask(BurstId, delay)
  \/ \E w \in Workers : WorkerGet(w)
  \/ \E w \in Workers : WorkerCheck1(w)
  \/ \E w \in Workers : WorkerCheck2(w)
  \/ \E w \in Workers : WorkerCall(w)
  \/ \E w \in Workers : WorkerBackoffDone(w)
  \/ \E w \in Workers : FnReturn(w)
  \/ \E w \in Workers : FnRaise(w)

\* Time goes on, every thread that can run does run, every sleep ends, every
\* call of fn ends (by returning or by raising), and the join of stop returns
\* once the threads have exited. The callers of start, stop and submit_task
\* owe nothing.
FairStop ==
  /\ WF_vars(TickTo(MaxTime) \/ TickShift)
  /\ WF_vars(StopJoined)
  /\ \A w \in Workers :
       /\ WF_vars(WorkerGet(w))
       /\ WF_vars(WorkerCheck1(w))
       /\ WF_vars(WorkerCheck2(w))
       /\ WF_vars(WorkerCall(w))
       /\ WF_vars(WorkerBackoffDone(w))
       /\ WF_vars(FnReturn(w) \/ FnRaise(w))

SpecStop == InitTQ /\ [][NextStop]_vars /\ FairStop

\* ------------------------------------------------------------ SpecDebounce
\* One id submitted up to BurstLen times on a started queue that is neither
\* cancelled nor stopped.
NextDebounce ==
  \/ Tick
  \/ Start
  \/ /\ ncalls.submit < BurstLen
     /\ \E delay \in Delays : SubmitTask(BurstId, delay)
  \/ \E w \in Workers : WorkerGet(w)
  \/ \E w \in Workers : WorkerCheck1(w)
  \/ \E w \in Workers : WorkerCheck2(w)
  \/ \E w \in Workers : WorkerCall(w)
  \/ \E w \in Workers : WorkerBackoffDone(w)
  \/ \E w \in Workers : FnReturn(w)
  \/ \E w \in Workers : FnRaise(w)

SpecDebounce == InitTQ /\ [][NextDebounce]_vars

\* ------------------------------------------------------------------ ZeroFS
\* Cache.add, called by fs.py: no file under src/ defines it. From spec.md
\* 4.1: "add(id, bytes): write file atomically at cache_dir/id; set
\* index[id] = len(bytes); move id to back of touch_order; then enforce
\* quota", which is what add_file does.
add(c, file_id, contents) == add_file(c, file_id, contents)

\* File.is_local_file: UUID(self.file_id) parses.
is_local_file(file) ==
  \E n \in 1..(MaxFuseCalls + 1) : file.file_id = uuid4(n)

\* File.update(file_id=..., file_size=...): a falsy argument (None, '' or 0)
\* leaves its field as it is.
File_update(file, file_id, file_size) ==
  [file EXCEPT !.file_id = IF file_id # "" THEN file_id ELSE @,
               !.st_size = IF file_size # 0 THEN file_size ELSE @]

\* Directory.file_exists
file_exists(tree, path) == tree[path] # 0

\* b2.download_file(file_id): the stored body; the store has none for an id
\* it never issued.
download_file(store, file_id) ==
  IF file_id \in DOMAIN store.objects
  THEN [raised |-> NoErr, ret |-> store.objects[file_id].content]
  ELSE [raised |-> "B2Error", ret |-> <<>>]

\* ZeroFS.read(path, size, offset), size 0 standing for None as well: both
\* make the slice run to the end.
read(tree, objs, c, store, path, size, offset) ==
  IF ~file_exists(tree, path) THEN Result(c, "KeyError", <<>>)
  ELSE LET file == objs[tree[path]]
       IN IF file.st_size = 0 THEN Result(c, NoErr, <<>>)
          ELSE LET d == download_file(store, file.file_id)
                   r1 == IF has(c, file.file_id) THEN Result(c, NoErr, <<>>)
                         ELSE IF d.raised # NoErr
                         THEN Result(c, d.raised, <<>>)
                         ELSE add(c, file.file_id, d.ret)
               IN IF r1.raised # NoErr THEN Result(r1.cache, r1.raised, <<>>)
                  ELSE LET r2 == get(r1.cache, file.file_id)
                       IN IF r2.raised # NoErr THEN r2
                          ELSE Result(r2.cache, NoErr,
                                 Slice(r2.ret, offset,
                                       IF size # 0 THEN offset + size
                                       ELSE Len(r2.ret)))

\* ZeroFS.readlink
readlink(tree, objs, c, store, path) == read(tree, objs, c, store, path, 0, 0)

\* The new body of ZeroFS.write:
\* content[:offset].ljust(offset, NUL) + data + content[offset + len(data):]
Splice(content, data, offset) ==
  Slice(content, 0, offset)
    \o Fill(Max(offset - Len(content), 0), 0)
    \o data
    \o Slice(content, offset + Len(data), Len(content))

\* ZeroFS._delete_file: the cache and the object store after it. deletes
\* records the ids that b2.delete_file was called with. missing_raises says
\* what b2.delete_file does for an id the store does not hold (b2py is not
\* part of the sources).
_delete_file(file, c, store, missing_raises) ==
  LET r == IF has(c, file.file_id) THEN delete(c, file.file_id)
           ELSE Result(c, NoErr, <<>>)
      called == [store EXCEPT !.deletes = @ \cup {file.file_id}]
  IN IF r.raised # NoErr THEN [cache |-> r.cache, b2 |-> store,
                               raised |-> r.raised]
     ELSE IF file.st_size = 0
     THEN [cache |-> r.cache, b2 |-> store, raised |-> NoErr]
     ELSE IF file.file_id \in DOMAIN store.objects
     THEN [cache |-> r.cache,
           b2 |-> [called EXCEPT !.objects = DropKey(@, file.file_id)],
           raised |-> NoErr]
     ELSE [cache |-> r.cache, b2 |-> called,
           raised |-> IF missing_raises THEN "B2Error" ELSE NoErr]

\* ------------------------------------------------------------------ SpecFS
FileIds ==
  {fileId(n) : n \in 0..MaxUploads} \cup {uuid4(n) : n \in 1..(MaxFuseCalls + 1)}

WriteData == {<<1>>, <<2>>}

WriteOffsets == {0, 1, 2}

ReadSizes == {0, 1}

\* ZeroFS.__init__ on a bucket that holds the one-byte file /a: an empty
\* cache directory, the tree of the bucket, a started task queue.
InitFS ==
  /\ InitCacheVars(CacheQuota)
  /\ num_workers = FSWorkers
  /\ run_state = "RUNNING"
  /\ tasks = [t \in FileIds |-> 0]
  /\ queue = <<>>
  /\ workers = [w \in Workers |->
                  IF w <= FSWorkers THEN [NewWorker EXCEPT !.pc = "get"]
                  ELSE NewWorker]
  /\ stopper = "none"
  /\ now = 0
  /\ ncalls = [submit |-> 0, cancel |-> 0]
  /\ cancelled = [t \in FileIds |-> FALSE]
  /\ burst = [t \in FileIds |-> NoBurst]
  /\ api = NoApi
  /\ root = [p \in Paths |-> IF p = "/a" THEN 1 ELSE 0]
  /\ files = <<File("/a", fileId(0), 1)>>
  /\ b2 = [objects |-> (fileId(0) :> [name |-> "/a", content |-> <<1>>]),
           uploads |-> 0, deletes |-> {}]
  /\ fuse = NoCallYet
  /\ dirs = NewTree
  /\ dcall = NoDirCall
  /\ lk = NoLocks
  /\ race = NoRace

\* The FUSE thread is between two calls and may make another one.
FuseIdle == fuse.pc = "done" /\ fuse.n < MaxFuseCalls

Called(op, old, path, data, offset) ==
  [op |-> op, pc |-> "done", old |-> old, path |-> path, data |-> data,
   offset |-> offset, content |-> <<>>, raised |-> NoErr, n |-> fuse.n + 1]

fsTQ == <<num_workers, run_state, workers, stopper, now>>

\* ZeroFS.create
FsCreate(path) ==
  /\ FuseIdle
  /\ LET file == File(path, uuid4(Len(files) + 1), 0)
         r == add(cache, file.file_id, <<>>)
     IN /\ files' = Append(files, file)
        /\ root' = [root EXCEPT ![path] = Len(files) + 1]
        /\ cache' = r.cache
        /\ fuse' = [Called("create", "", path, <<>>, 0) EXCEPT
                      !.raised = r.raised]
  /\ UNCHANGED <<recency, last, dirs, dcall, lk, race, fsTQ, tasks, queue, tqObs, b2>>

\* ZeroFS.read
FsRead(path, size, offset) ==
  /\ FuseIdle
  /\ LET r == read(root, files, cache, b2, path, size, offset)
     IN /\ cache' = r.cache
        /\ fuse' = [Called("read", "", path, <<>>, 0) EXCEPT
                      !.raised = r.raised]
  /\ UNCHANGED <<recency, last, dirs, dcall, lk, race, fsTQ, tasks, queue, tqObs, root,
                 files, b2>>

\* ZeroFS.write up to the file lock: file_at_path and readlink.
FsWriteBegin(path, data, offset) ==
  /\ FuseIdle
  /\ LET r == readlink(root, files, cache, b2, path)
     IN /\ cache' = r.cache
        /\ fuse' = [Called("write", "", path, data, offset) EXCEPT
                      !.raised = r.raised, !.content = r.ret,
                      !.pc = IF r.raised = NoErr THEN "write_locked"
                             ELSE "done"]
  /\ UNCHANGED <<recency, last, dirs, dcall, lk, race, fsTQ, tasks, queue, tqObs, root,
                 files, b2>>

\* ZeroFS.write under file_locks[file.file_id], of a write call and of the
\* write that ends rename: the new body, file.update, cache.add, submit_task.
FsWriteLocked ==
  /\ fuse.pc = "write_locked"
  /\ LET h == root[fuse.path]
         content == Splice(fuse.content, fuse.data, fuse.offset)
         file == File_update(files[h], "", Len(content))
         r == add(cache, file.file_id, content)
         task_version == tasks[file.file_id] + 1
     IN /\ files' = [files EXCEPT ![h] = file]
        /\ cache' = r.cache
        /\ fuse' = [fuse EXCEPT !.pc = "done", !.raised = r.raised]
        /\ IF r.raised # NoErr
           THEN UNCHANGED <<tasks, queue, ncalls, burst>>
           ELSE /\ tasks' = [tasks EXCEPT ![file.file_id] = task_version]
                /\ queue' = put(queue, Entry(now + UploadDelay, file.file_id,
                                             task_version, "_upload_file",
                                             fuse.path))
                /\ ncalls' = [ncalls EXCEPT !.submit = @ + 1]
                /\ burst' = [burst EXCEPT ![file.file_id] =
                               Submitted(@, now + UploadDelay, fuse.path)]
  /\ UNCHANGED <<recency, last, dirs, dcall, lk, race, fsTQ, cancelled, api, root, b2>>

\* ZeroFS.unlink of a file: _delete_file, then root.rm.
FsUnlink(path, missing_raises) ==
  /\ FuseIdle
  /\ IF ~file_exists(root, path)
     THEN /\ fuse' = [Called("unlink", "", path, <<>>, 0) EXCEPT
                        !.raised = "KeyError"]
          /\ UNCHANGED <<cache, b2, root>>
     ELSE LET r == _delete_file(files[root[path]], cache, b2, missing_raises)
          IN /\ cache' = r.cache
             /\ b2' = r.b2
             /\ root' = IF r.raised = NoErr THEN [root EXCEPT ![path] = 0]
                        ELSE root
             /\ fuse' = [Called("unlink", "", path, <<>>, 0) EXCEPT
                           !.raised = r.raised]
  /\ UNCHANGED <<recency, last, dirs, dcall, lk, race, fsTQ, tasks, queue, tqObs, files>>

\* ZeroFS.rename of a file: contents = self.readlink(old)
FsRenameBegin(old, new) ==
  /\ FuseIdle
  /\ LET r == readlink(root, files, cache, b2, old)
     IN /\ cache' = r.cache
        /\ fuse' = [Called("rename", old, new, r.ret, 0) EXCEPT
                      !.raised = r.raised,
                      !.pc = IF r.raised = NoErr THEN "rename_unlink"
                             ELSE "done"]
  /\ UNCHANGED <<recency, last, dirs, dcall, lk, race, fsTQ, tasks, queue, tqObs, root,
                 files, b2>>

\* ZeroFS.rename: self.unlink(old)
FsRenameUnlink(missing_raises) ==
  /\ fuse.pc = "rename_unlink"
  /\ LET r == _delete_file(files[root[fuse.old]], cache, b2, missing_raises)
     IN /\ cache' = r.cache
        /\ b2' = r.b2
        /\ root' = IF r.raised = NoErr THEN [root EXCEPT ![fuse.old] = 0]
                   ELSE root
        /\ fuse' = [fuse EXCEPT !.raised = r.raised,
                                !.pc = IF r.raised = NoErr
                                       THEN "rename_create" ELSE "done"]
  /\ UNCHANGED <<recency, last, dirs, dcall, lk, race, fsTQ, tasks, queue, tqObs, files>>

\* ZeroFS.rename: self.create(new, file.st_mode)
FsRenameCreate ==
  /\ fuse.pc = "rename_create"
  /\ LET file == File(fuse.path, uuid4(Len(files) + 1), 0)
         r == add(cache, file.file_id, <<>>)
     IN /\ files' = Append(files, file)
        /\ root' = [root EXCEPT ![fuse.path] = Len(files) + 1]
        /\ cache' = r.cache
        /\ fuse' = [fuse EXCEPT !.raised = r.raised,
                                !.pc = IF r.raised = NoErr
                                       THEN "rename_write" ELSE "done"]
  /\ UNCHANGED <<recency, last, dirs, dcall, lk, race, fsTQ, tasks, queue, tqObs, b2>>

\* ZeroFS.rename: self.write(new, contents, 0) up to the file lock.
FsRenameWriteBegin ==
  /\ fuse.pc = "rename_write"
  /\ LET r == readlink(root, files, cache, b2, fuse.path)
     IN /\ cache' = r.cache
        /\ fuse' = [fuse EXCEPT !.raised = r.raised, !.content = r.ret,
                                !.pc = IF r.raised = NoErr
                                       THEN "write_locked" ELSE "done"]
  /\ UNCHANGED <<recency, last, dirs, dcall, lk, race, fsTQ, tasks, queue, tqObs, root,
                 files, b2>>

\* ZeroFS._upload_file up to the file lock: file_at_path and cache.get.
UploadBegin(w) ==
  /\ workers[w].pc = "in_fn"
  /\ workers[w].task.fn = "_upload_file"
  /\ workers[w].fn_pc = "start"
  /\ LET path == workers[w].task.args
         r == IF file_exists(root, path)
              THEN get(cache, files[root[path]].file_id)
              ELSE Result(cache, "KeyError", <<>>)
     IN /\ cache' = r.cache
        /\ workers' = [workers EXCEPT ![w] =
             IF r.raised # NoErr THEN fn_raised(workers[w], now)
             ELSE [workers[w] EXCEPT !.fn_pc = "locked",
                                     !.file = root[path],
                                     !.content = r.ret]]
  /\ UNCHANGED <<recency, last, num_workers, run_state, tasks, queue, stopper,
                 now, tqObs, fsVars>>

\* ZeroFS._upload_file under file_locks[file.file_id]: the upload, which the
\* store accepts or not, then cache.delete, file.update and cache.add.
UploadLocked(w, accepted) ==
  /\ workers[w].pc = "in_fn"
  /\ workers[w].task.fn = "_upload_file"
  /\ workers[w].fn_pc = "locked"
  /\ LET h == workers[w].file
         content == workers[w].content
         response == fileId(b2.uploads + 1)
         r1 == delete(cache, files[h].file_id)
         file == File_update(files[h], response, Len(content))
         r2 == add(r1.cache, file.file_id, content)
     IN IF ~(accepted /\ b2.uploads < MaxUploads)
        THEN /\ workers' = [workers EXCEPT ![w] = fn_raised(@, now)]
             /\ UNCHANGED <<cache, b2, files>>
        ELSE /\ b2' = [objects |->
                         PutKey(b2.objects, response,
                                [name |-> workers[w].task.args,
                                 content |-> content]),
                       uploads |-> b2.uploads + 1,
                       deletes |-> b2.deletes]
             /\ IF r1.raised # NoErr
                THEN /\ cache' = r1.cache
                     /\ workers' = [workers EXCEPT ![w] = fn_raised(@, now)]
                     /\ UNCHANGED files
                ELSE /\ cache' = r2.cache
                     /\ files' = [files EXCEPT ![h] = file]
                     /\ workers' = [workers EXCEPT ![w] =
                          IF r2.raised # NoErr THEN fn_raised(@, now)
                          ELSE fn_returned(@)]
  /\ UNCHANGED <<recency, last, num_workers, run_state, tasks, queue, stopper,
                 now, tqObs, root, fuse, dirs, dcall, lk,
                 race>>

NextFS ==
  \/ now < MaxFSTime /\ Tick
  \/ \E path \in Paths : FsCreate(path)
  \/ \E path \in Paths, size \in ReadSizes : FsRead(path, size, 0)
  \/ \E path \in Paths, data \in WriteData, offset \in WriteOffsets :
       FsWriteBegin(path, data, offset)
  \/ FsWriteLocked
  \/ \E path \in Paths, missing_raises \in BOOLEAN :
       FsUnlink(path, missing_raises)
  \/ \E old, new \in Paths : FsRenameBegin(old, new)
  \/ \E missing_raises \in BOOLEAN : FsRenameUnlink(missing_raises)
  \/ FsRenameCreate
  \/ FsRenameWriteBegin
  \/ \E w \in Workers : WorkerGet(w)
  \/ \E w \in Workers : WorkerCheck1(w)
  \/ \E w \in Workers : WorkerCheck2(w)
  \/ \E w \in Workers : WorkerCall(w)
  \/ \E w \in Workers : WorkerBackoffDone(w)
  \/ \E w \in Workers : UploadBegin(w)
  \/ \E w \in Workers : \E accepted \in BOOLEAN : UploadLocked(w, accepted)

SpecFS == InitFS /\ [][NextFS]_vars

\* --------------------------------------------------------------- SpecTrunc
\* The lengths handed to truncate.
TruncateLengths == 0..MaxLen

\* ZeroFS.truncate: file_at_path, readlink, the padded copy of the body
\* (a local that is dropped at the return), file.st_size = length. The
\* observer keeps the body that readlink returned as content and length as
\* offset.
FsTruncate(path, length) ==
  /\ FuseIdle
  /\ LET r == readlink(root, files, cache, b2, path)
     IN /\ cache' = r.cache
        /\ files' = IF r.raised = NoErr
                    THEN [files EXCEPT ![root[path]].st_size = length]
                    ELSE files
        /\ fuse' = [Called("truncate", "", path, <<>>, length) EXCEPT
                      !.raised = r.raised, !.content = r.ret]
  /\ UNCHANGED <<recency, last, dirs, dcall, lk, race, fsTQ, tasks, queue, tqObs, root,
                 b2>>

\* The calls of SpecFS and truncate.
NextTrunc ==
  \/ NextFS
  \/ \E path \in Paths, length \in TruncateLengths : FsTruncate(path, length)

SpecTrunc == InitFS /\ [][NextTrunc]_vars

\* ------------------------------------------------------- Directory (file.py)
\* Object names in the bucket of SpecDir, split at '/': a and d/x.
Bucket == {<<"a">>, <<"d", "x">>}

\* The id the store lists for an object.
ListedId(name) == IF name = <<"a">> THEN fileId(0) ELSE fileId(1)

\* b2.list_files(bucket_id, prefix=prefix, list_directory=True): the objects
\* right under the prefix, and one folder entry, its name ending in '/', for
\* each deeper level. The prefixes used are '' and folder names.
list_files(prefix) ==
  LET P == SubSeq(prefix, 1, Len(prefix) - 1)
      under == {n \in Bucket : Len(n) > Len(P) /\ SubSeq(n, 1, Len(P)) = P}
  IN {IF Len(n) = Len(P) + 1
      THEN [fileName |-> n, action |-> "upload", fileId |-> ListedId(n)]
      ELSE [fileName |-> SubSeq(n, 1, Len(P) + 1) \o <<"">>,
            action |-> "folder", fileId |-> ""] : n \in under}

\* info['fileName'].strip('/').split('/')[-1]
Key(fileName) ==
  LET parts == SelectSeq(fileName, LAMBDA c : c # "")
  IN parts[Len(parts)]

\* Directory._load_files of the Directory named d: files becomes the listing,
\* a Directory for each folder and a File for each object.
_load_files(t, d) ==
  IF t.loaded[d] THEN t
  ELSE LET infos == list_files(d)
           node(info) == [kind |-> IF info.action = "folder" THEN "dir"
                                   ELSE "file",
                          name |-> info.fileName, file_id |-> info.fileId]
       IN [t EXCEPT
             !.files[d] = [k \in {Key(i.fileName) : i \in infos} |->
                             node(CHOOSE i \in infos : Key(i.fileName) = k)],
             !.loaded[d] = TRUE]

\* The Directory named d as an element of a nesting.
DirNode(d) == [kind |-> "dir", name |-> d, file_id |-> ""]

\* return [self] + file.file_nesting(path[1:])
UnderSelf(d, r) ==
  [r EXCEPT !.nesting = IF r.raised = NoErr THEN <<DirNode(d)>> \o @ ELSE @]

\* Directory.file_nesting of the Directory named d, path a non-empty list:
\* the tree after the loads it makes, and the nesting or the exception.
\* Loaded is the part after self._load_files().
RECURSIVE file_nesting(_, _, _)
Loaded(t1, d, path) ==
  IF path[1] \notin DOMAIN t1.files[d]
  THEN [tree |-> t1, raised |-> "KeyError", nesting |-> <<>>]
  ELSE LET file == t1.files[d][path[1]]
       IN IF Len(path) = 1
          THEN [tree |-> t1, raised |-> NoErr,
                nesting |-> <<DirNode(d), file>>]
          ELSE IF file.kind # "dir"
          THEN [tree |-> t1, raised |-> "AttributeError", nesting |-> <<>>]
          ELSE UnderSelf(d, file_nesting(t1, file.name, Tail(path)))

file_nesting(t, d, path) == Loaded(_load_files(t, d), d, path)

\* self.file_nesting(path)[-1]
LastOf(r) ==
  [tree |-> r.tree, raised |-> r.raised,
   file |-> IF r.raised = NoErr THEN r.nesting[Len(r.nesting)]
            ELSE DirNode(<<"">>)]

\* Directory.file_at_path on the root
file_at_path(t, path) == LastOf(file_nesting(t, <<"">>, path))

\* Directory._find_node on the root: the Directory at path, found through
\* files as they are (nothing is loaded), or KeyError.
RECURSIVE _find_node(_, _, _)
_find_node(t, d, path) ==
  IF path = <<>> THEN [raised |-> NoErr, node |-> d]
  ELSE IF path[1] \notin DOMAIN t.files[d] \/ t.files[d][path[1]].kind # "dir"
  THEN [raised |-> "KeyError", node |-> d]
  ELSE _find_node(t, t.files[d][path[1]].name, Tail(path))

\* Directory.mkdir after node = self._find_node(path[:-1]):
\* Directory(path[-1], [], mode=mode) passes two positional arguments to
\* __init__(self, b2, bucket_id, name, mode).
MkdirAt(t, r, path) ==
  IF r.raised # NoErr THEN [tree |-> t, raised |-> r.raised]
  ELSE IF path[Len(path)] \in DOMAIN t.files[r.node]
  THEN [tree |-> t, raised |-> "KeyError"]
  ELSE [tree |-> t, raised |-> "TypeError"]

\* Directory.mkdir on the root
Directory_mkdir(t, path) ==
  MkdirAt(t, _find_node(t, <<"">>, SubSeq(path, 1, Len(path) - 1)), path)

\* Directory.rm after nesting = self.file_nesting(path):
\* del parent_dir.files[file.name]; the name of a node is a key of its
\* parent only if it has no '/' in it.
RmOf(r) ==
  IF r.raised # NoErr THEN [tree |-> r.tree, raised |-> r.raised]
  ELSE LET parent_dir == r.nesting[Len(r.nesting) - 1].name
           file == r.nesting[Len(r.nesting)]
       IN IF Len(file.name) = 1
               /\ file.name[1] \in DOMAIN r.tree.files[parent_dir]
          THEN [tree |-> [r.tree EXCEPT !.files[parent_dir] =
                            DropKey(@, file.name[1])],
                raised |-> NoErr]
          ELSE [tree |-> r.tree, raised |-> "KeyError"]

\* Directory.rm on the root
Directory_rm(t, path) == RmOf(file_nesting(t, <<"">>, path))

\* Directory.touch after node = self._find_node(path[:-1]): a new File under
\* the last path component.
TouchAt(t, r, path) ==
  LET file == [kind |-> "file", name |-> <<path[Len(path)]>>,
               file_id |-> uuid4(t.made + 1)]
  IN IF r.raised # NoErr
     THEN [tree |-> t, raised |-> r.raised, file |-> file]
     ELSE [tree |-> [t EXCEPT !.files[r.node] =
                       PutKey(@, path[Len(path)], file),
                     !.made = @ + 1],
           raised |-> NoErr, file |-> file]

\* Directory.touch on the root
Directory_touch(t, path) ==
  TouchAt(t, _find_node(t, <<"">>, SubSeq(path, 1, Len(path) - 1)), path)

\* errno.ENOTEMPTY
ENOTEMPTY == 39

\* The outcome of a directory operation that returns None (0 here).
NoneOf(r) == [tree |-> r.tree, raised |-> r.raised, ret |-> 0]

\* ZeroFS.rmdir after directory = self.root.file_at_path(path)
RmdirOf(r, path) ==
  IF r.raised # NoErr THEN NoneOf(r)
  ELSE IF r.file.kind # "dir"
  THEN [tree |-> r.tree, raised |-> "AttributeError", ret |-> 0]
  ELSE IF DOMAIN r.tree.files[r.file.name] # {}
  THEN [tree |-> r.tree, raised |-> NoErr, ret |-> ENOTEMPTY]
  ELSE NoneOf(Directory_rm(r.tree, path))

\* ZeroFS.rmdir: the tree after it, the exception and the value returned.
rmdir(t, path) == RmdirOf(file_at_path(t, path), path)

\* ZeroFS.mkdir
mkdir(t, path) == Directory_mkdir(t, path)

\* ZeroFS.rename of an empty Directory after self.rmdir(old)
RenameEmpty(r1, new) ==
  IF r1.raised # NoErr THEN r1 ELSE NoneOf(mkdir(r1.tree, new))

\* ZeroFS.rename after file = self.root.file_at_path(old), for a Directory
\* or a missing old: ENOTEMPTY, or rmdir(old) and mkdir(new). is_file says
\* that old is a File instead.
RenameOf(f, old, new) ==
  IF f.raised # NoErr THEN [is_file |-> FALSE, out |-> NoneOf(f)]
  ELSE IF f.file.kind # "dir" THEN [is_file |-> TRUE, out |-> NoneOf(f)]
  ELSE IF DOMAIN f.tree.files[f.file.name] # {}
  THEN [is_file |-> FALSE,
        out |-> [tree |-> f.tree, raised |-> NoErr, ret |-> ENOTEMPTY]]
  ELSE [is_file |-> FALSE, out |-> RenameEmpty(rmdir(f.tree, old), new)]

\* ZeroFS.rename
rename(t, old, new) == RenameOf(file_at_path(t, old), old, new)

\* ----------------------------------------------------------------- SpecDir
DirPaths == {<<"a">>, <<"d">>, <<"d", "x">>, <<"d", "y">>, <<"n">>}

\* ZeroFS.__init__ on a bucket that holds a and d/x: nothing loaded yet.
InitDir ==
  /\ InitCacheVars(CacheQuota)
  /\ InitTQVars(NumWorkers, TaskIds)
  /\ root = [p \in Paths |-> 0]
  /\ files = <<>>
  /\ b2 = [objects |-> <<>>, uploads |-> 0, deletes |-> {}]
  /\ fuse = NoCallYet
  /\ dirs = NewTree
  /\ dcall = NoDirCall
  /\ lk = NoLocks
  /\ race = NoRace

DirCalled(op, path, new, raised, ret) ==
  [op |-> op, path |-> path, new |-> new, raised |-> raised, ret |-> ret,
   n |-> dcall.n + 1, pre |-> dirs, pre_cache |-> cache]

dirRest == <<recency, last, tqVars, tqObs, root, files, b2, fuse, lk, race>>

\* ZeroFS.getattr
DirGetattr(path) ==
  /\ dcall.n < MaxDirCalls
  /\ LET r == file_at_path(dirs, path)
     IN /\ dirs' = r.tree
        /\ dcall' = DirCalled("getattr", path, <<>>,
                              IF r.raised = "KeyError" THEN "FuseOSError"
                              ELSE r.raised, 0)
  /\ UNCHANGED <<cache, dirRest>>

\* ZeroFS.create
DirCreate(path) ==
  /\ dcall.n < MaxDirCalls
  /\ LET r == Directory_touch(dirs, path)
         c == IF r.raised # NoErr THEN Result(cache, r.raised, <<>>)
              ELSE add(cache, r.file.file_id, <<>>)
     IN /\ dirs' = r.tree
        /\ cache' = c.cache
        /\ dcall' = DirCalled("create", path, <<>>, c.raised, 0)
  /\ UNCHANGED dirRest

\* ZeroFS.mkdir
DirMkdir(path) ==
  /\ dcall.n < MaxDirCalls
  /\ LET r == mkdir(dirs, path)
     IN /\ dirs' = r.tree
        /\ dcall' = DirCalled("mkdir", path, <<>>, r.raised, 0)
  /\ UNCHANGED <<cache, dirRest>>

\* ZeroFS.rmdir
DirRmdir(path) ==
  /\ dcall.n < MaxDirCalls
  /\ LET r == rmdir(dirs, path)
     IN /\ dirs' = r.tree
        /\ dcall' = DirCalled("rmdir", path, <<>>, r.raised, r.ret)
  /\ UNCHANGED <<cache, dirRest>>

\* ZeroFS.rename where old is a Directory or is missing (the renaming of a
\* File is FsRenameBegin and the steps after it).
DirRename(old, new) ==
  /\ dcall.n < MaxDirCalls
  /\ LET r == rename(dirs, old, new)
     IN /\ ~r.is_file
        /\ dirs' = r.out.tree
        /\ dcall' = DirCalled("rename", old, new, r.out.raised, r.out.ret)
  /\ UNCHANGED <<cache, dirRest>>

NextDir ==
  \/ \E path \in DirPaths : DirGetattr(path)
  \/ \E path \in DirPaths : DirCreate(path)
  \/ \E path \in DirPaths : DirMkdir(path)
  \/ \E path \in DirPaths : DirRmdir(path)
  \/ \E old, new \in DirPaths : DirRename(old, new)

SpecDir == InitDir /\ [][NextDir]_vars

\* ================================================================== claims
\* ---------------------------------------------------------------- C1 .. C3
\* C1: after every add_file, update or delete on the cache (the call returned
\* or raised), the sizes recorded in the index sum to at most cache_size.
C1_QuotaInvariant == used_disk_space(cache) <= cache.cache_size

\* C1, where it fails: a delete left its id in the touch list, and the next
\* eviction popped that id and raised with the index still over quota.
C1_StaleTouchEntryHit ==
  /\ last.op = "add_file"
  /\ last.raised = "FileNotFoundError"
  /\ used_disk_space(cache) > cache.cache_size

\* The order of use right after add_file(file_id, ..): the order before it
\* with file_id moved to the back.
C2_Order ==
  Append(SelectSeq(last.pre_recency, LAMBDA x : x # last.file_id),
         last.file_id)

C2_Sizes == PutKey(last.pre_index, last.file_id, Len(last.arg))

\* The recorded bytes left once the first j entries of the order are gone.
C2_Left(j) ==
  SumValues([x \in {C2_Order[i] : i \in (j + 1)..Len(C2_Order)}
               |-> C2_Sizes[x]])

C2_Removed == Range(C2_Order) \ DOMAIN cache.index

C3_AddThenContains ==
  (last.op = "add_file" /\ last.raised = NoErr) =>
    /\ contains(cache, last.file_id)
    /\ cache.index[last.file_id] = Len(last.arg)

\* C3 amended: the same for contents of at most cache_size bytes.
C3_AddThenContainsWithinQuota ==
  (last.op = "add_file" /\ last.raised = NoErr
     /\ Len(last.arg) <= cache.cache_size) =>
    /\ contains(cache, last.file_id)
    /\ cache.index[last.file_id] = Len(last.arg)

\* An add_file of a non-empty body that fits returned and evicted an entry
\* to make room.
C3_Witness ==
  /\ last.op = "add_file" /\ last.raised = NoErr
  /\ Len(last.arg) > 0 /\ Len(last.arg) <= cache.cache_size
  /\ (DOMAIN last.pre_index) \ (DOMAIN cache.index) # {}
  /\ last.file_id \notin DOMAIN last.pre_index

\* ---------------------------------------------------------------- C4 .. C7
\* Worker w calls fn in this step.
Calls(w) == workers[w].pc = "run" /\ workers'[w].pc = "in_fn"

\* Worker w makes one of its two version checks in this step.
Checks(w) ==
  /\ workers[w].pc \in {"check1", "sleeping"}
  /\ workers'[w] # workers[w]

\* No entry of the queue and no worker carries a task of task_id.
Gone(task_id) ==
  /\ \A i \in 1..Len(queue) : queue[i].task_id # task_id
  /\ \A w \in Workers : workers[w].task.task_id # task_id

\* Worker w is the only holder of a task of task_id.
OnlyHolder(w, task_id) ==
  /\ \A i \in 1..Len(queue) : queue[i].task_id # task_id
  /\ \A v \in Workers \ {w} : workers[v].task.task_id # task_id

\* C4 as stated: the fn of a task carrying version v is never called, on a
\* first attempt or a retry, at a moment when the latest version of its id is
\* greater than v.
C4_NeverCalledWhenSuperseded ==
  [][\A w \in Workers :
       Calls(w) =>
         tasks[workers[w].task.task_id] <= workers[w].task.version]_vars

\* C4 amended: fn is called only for a task whose check after the sleep read a
\* latest version not greater than the task's own, and a task that one of the
\* two checks finds superseded is dropped without a call of fn.
C4_CalledOnlyAfterPassedCheck ==
  [][\A w \in Workers :
       /\ Calls(w) => workers[w].checked <= workers[w].task.version
       /\ Checks(w) /\ superseded(tasks, workers[w].task) =>
            /\ workers'[w].pc = "get"
            /\ burst' = burst]_vars

\* C4 witness: the second version of x is inside fn as the first call made
\* for x, and the first version is nowhere any more.
C4_Witness ==
  \E w \in Workers :
    /\ workers[w].pc = "in_fn"
    /\ workers[w].task.task_id = "x"
    /\ workers[w].task.version = 2
    /\ tasks["x"] = 2
    /\ burst["x"].last_args = 2
    /\ burst["x"].calls = 1
    /\ OnlyHolder(w, "x")

\* The run is over: the queue is started and empty and every worker waits in
\* queue.get().
Quiescent ==
  /\ run_state = "RUNNING"
  /\ queue = <<>>
  /\ \A w \in Workers : workers[w].pc = "get"

\* C5 as stated, "the first of them" read as the first call: submissions of
\* one id all made before the ready time of the first one, fn never raising,
\* lead to at most one call of fn.
C5_OnceBeforeFirstReady ==
  \A task_id \in TaskIds :
    LET b == burst[task_id]
    IN b.n > 0 /\ b.early_first /\ ~b.failed /\ ~b.cancelled =>
         b.calls <= 1

\* C5 amended: submissions of one id all made before any of them is ready, fn
\* never raising: fn is called at most once, with the arguments of the last
\* submission, and once the run is over it has been called exactly once.
C5_OnceBeforeAnyReady ==
  \A task_id \in TaskIds :
    LET b == burst[task_id]
    IN b.n > 0 /\ b.early_min /\ ~b.failed /\ ~b.cancelled =>
         /\ b.calls <= 1
         /\ b.calls = 1 => b.called_args = b.last_args
         /\ Quiescent => b.calls = 1

\* C5 witness: three submissions of x with different delays, all made before
\* any was ready, and the run is over after one call with the last arguments.
C5_Witness ==
  LET b == burst["x"]
  IN /\ Quiescent
     /\ b.last_args = BurstLen
     /\ b.early_min
     /\ b.first_ready # b.min_ready
     /\ ~b.failed
     /\ b.calls = 1
     /\ b.called_args = BurstLen

\* C6: at no time are two workers inside fn for the same task id.
C6_SingleFlight ==
  \A w1, w2 \in Workers :
    /\ w1 # w2
    /\ workers[w1].pc = "in_fn"
    /\ workers[w2].pc = "in_fn"
    => workers[w1].task.task_id # workers[w2].task.task_id

\* C6 witness: two workers are inside fn for the two versions of x.
C6_TwoInFlight ==
  /\ workers[1].pc = "in_fn"
  /\ workers[2].pc = "in_fn"
  /\ workers[1].task.task_id = "x"
  /\ workers[2].task.task_id = "x"
  /\ workers[1].task.version # workers[2].task.version

\* C7 as stated: while an id is cancelled and not submitted again, fn is not
\* called for it, on a first attempt or a retry.
C7_NeverCalledAfterCancel ==
  [][\A w \in Workers :
       Calls(w) => ~cancelled[workers[w].task.task_id]]_vars

\* C7 amended: while an id is cancelled and not submitted again, every task
\* of it that comes to one of the two version checks is dropped without a
\* call of fn.
C7_DroppedAtCheckAfterCancel ==
  [][\A w \in Workers :
       Checks(w) /\ cancelled[workers[w].task.task_id] =>
         /\ workers'[w].pc = "get"
         /\ burst' = burst]_vars

\* C7 witness: x was submitted once and then cancelled, its task is gone and
\* fn was never called for it.
C7_Witness ==
  /\ cancelled["x"]
  /\ tasks["x"] = 2
  /\ burst["x"].n = 1
  /\ burst["x"].calls = 0
  /\ Gone("x")
  /\ now >= burst["x"].first_ready

\* --------------------------------------------------------------- C8 .. C10
\* The last FUSE call was op and it has returned without raising.
Returned(op) == fuse.op = op /\ fuse.pc = "done" /\ fuse.raised = NoErr

\* What read(path, size, offset) would return if it were called now.
ReadNow(path, size, offset) == read(root, files, cache, b2, path, size, offset)

\* C8: from the return of write(path, data, 0) until the next call, whatever
\* the upload worker does meanwhile, read(path, len(data), 0) returns data.
C8_WriteReadRoundTrip ==
  Returned("write") /\ fuse.offset = 0 =>
    LET r == ReadNow(fuse.path, Len(fuse.data), 0)
    IN r.raised = NoErr /\ r.ret = fuse.data

\* C8 case: write(path, data, 0) has returned, the body it left fits the
\* cache and is still cached, an upload has completed since, and a read now
\* returns other bytes: the upload had read the body before the write took
\* the file lock and put it back afterwards.
C8_StaleUploadClobbersWrite ==
  /\ Returned("write")
  /\ fuse.offset = 0
  /\ b2.uploads > 0
  /\ Len(Splice(fuse.content, fuse.data, 0)) <= cache.cache_size
  /\ has(cache, files[root[fuse.path]].file_id)
  /\ LET r == ReadNow(fuse.path, Len(fuse.data), 0)
     IN r.raised = NoErr /\ r.ret # fuse.data

\* C9: at the return of write(path, data, offset) the body is the body the
\* write found, with data spliced in at offset behind NUL padding, and the
\* file's size is the length of that body.
C9_SpliceLaw ==
  [][fuse.op = "write" /\ fuse.pc = "write_locked" /\ fuse'.pc = "done"
       /\ fuse'.raised = NoErr =>
     LET r == read(root', files', cache', b2', fuse.path, 0, 0)
     IN /\ r.raised = NoErr
        /\ r.ret = Splice(fuse.content, fuse.data, fuse.offset)
        /\ files'[root'[fuse.path]].st_size = Len(r.ret)]_vars

\* C9 case: write has returned, no upload has run, and the body it built is
\* longer than the cache quota, so that cache.add evicted it again.
C9_BodyEvictedByOwnWrite ==
  /\ Returned("write")
  /\ b2.uploads = 0
  /\ Len(Splice(fuse.content, fuse.data, fuse.offset)) > cache.cache_size
  /\ files[root[fuse.path]].st_size
       = Len(Splice(fuse.content, fuse.data, fuse.offset))
  /\ ~has(cache, files[root[fuse.path]].file_id)

\* C10: from the return of rename(old, new) of a file with body B until the
\* next call, old is not in the tree and reading new to the end returns B.
C10_RenameKeepsBody ==
  Returned("rename") /\ fuse.old # fuse.path =>
    /\ ~file_exists(root, fuse.old)
    /\ LET r == ReadNow(fuse.path, 0, 0)
       IN r.raised = NoErr /\ r.ret = fuse.data

\* C10 case: rename(old, new) of a non-empty body has returned, old is gone,
\* and new reads as empty: an upload queued for the file that was at new
\* read the body of the recreated file before rename wrote B into it.
C10_StaleUploadEmptiesNew ==
  /\ Returned("rename")
  /\ fuse.old # fuse.path
  /\ fuse.data # <<>>
  /\ ~file_exists(root, fuse.old)
  /\ b2.uploads > 0
  /\ LET r == ReadNow(fuse.path, 0, 0)
     IN r.raised = NoErr /\ r.ret = <<>>

\* ---------------------------------------------------------------------- C11
\* path names a directory of the bucket: some object lies under it, so it
\* has at least one child.
HasChild(path) ==
  \E n \in Bucket : Len(n) > Len(path) /\ SubSeq(n, 1, Len(path)) = path

\* The entries of every Directory as a lookup shows them, that is once the
\* Directory is loaded.
TreeView(t) == [d \in DirNames |-> _load_files(t, d).files[d]]

\* C11: rmdir(path) and rename(path, new) on a directory with at least one
\* child return ENOTEMPTY and leave the tree and the cache as they were.
C11_NonEmptyDirRefused ==
  dcall.op \in {"rmdir", "rename"} /\ HasChild(dcall.path) =>
    /\ dcall.raised = NoErr
    /\ dcall.ret = ENOTEMPTY
    /\ TreeView(dirs) = TreeView(dcall.pre)
    /\ cache = dcall.pre_cache

\* C11 case: rmdir of the directory d, whose children were not listed yet
\* (nothing below d was looked up), ended in KeyError.
C11_UnloadedDirNotRefused ==
  /\ dcall.op = "rmdir"
  /\ dcall.path = <<"d">>
  /\ HasChild(dcall.path)
  /\ ~dcall.pre.loaded[<<"d", "">>]
  /\ dcall.raised = "KeyError"

\* ---------------------------------------------------------------------- C12
\* C12: b2.delete_file is never called with the id of a local-only file (a
\* uuid that File.__init__ made), whatever the size of the file.
C12_NoDeleteRpcForLocalFile ==
  \A file_id \in b2.deletes :
    ~is_local_file([file_id |-> file_id])

\* C12 case: unlink of a file that was created and written but not uploaded
\* (its id is still the uuid) has called b2.delete_file with that id.
C12_LocalFileDeleteRpc ==
  /\ fuse.op = "unlink"
  /\ fuse.pc = "done"
  /\ \E h \in 1..Len(files) :
       /\ files[h].name = fuse.path
       /\ is_local_file(files[h])
       /\ files[h].st_size > 0
       /\ files[h].file_id \in b2.deletes

\* C13: run_state changes only from STOPPED to RUNNING in a start that raises
\* nothing and from RUNNING to STOPPED at the end of a stop; start on a
\* RUNNING queue, stop on a STOPPED queue and submit_task on a STOPPED queue
\* raise and leave run_state, the version map and the pending queue as they
\* were.
C13_RunStateMachine ==
  [][/\ run_state' # run_state =>
          \/ /\ run_state = "STOPPED" /\ run_state' = "RUNNING"
             /\ api'.flip # api.flip /\ api'.op = "start"
             /\ api'.raised = NoErr
          \/ /\ run_state = "RUNNING" /\ run_state' = "STOPPED"
             /\ stopper = "joining" /\ stopper' = "none"
     /\ /\ api'.flip # api.flip
        /\ \/ api'.op = "start" /\ run_state = "RUNNING"
           \/ api'.op = "stop" /\ run_state = "STOPPED"
           \/ api'.op = "submit_task" /\ run_state = "STOPPED"
        => /\ api'.raised # NoErr
           /\ UNCHANGED <<run_state, tasks, queue>>]_vars

\* A second start was refused while a submitted task was pending.
C13_DoubleStartRefused ==
  /\ api.op = "start" /\ api.raised = "ValueError"
  /\ run_state = "RUNNING" /\ queue # <<>>

\* C14: a TaskQueue never has fewer than one worker: constructing one with
\* num_workers < 1 raises.
C14_AtLeastOneWorker == num_workers >= 1

\* A queue constructed with no worker was started and holds a task that no
\* thread will take.
C14_ZeroWorkerQueueRuns ==
  /\ num_workers = 0 /\ run_state = "RUNNING"
  /\ queue # <<>> /\ \A w \in Workers : workers[w].pc = "none"

\* C15: fn of a task is never called before the task's ready time
\* (time_to_run, the submission time plus delay) nor less than one second
\* after the worker took the task from the queue, whether the task was put by
\* submit_task or put back after its attempts failed.
C15_DebounceDelay ==
  [][\A w \in Workers :
       Calls(w) => /\ now >= workers[w].task.time
                   /\ now >= workers[w].got_at + 1]_vars

\* fn is being called for a task that was submitted once, failed all its
\* attempts, was put back and taken again.
C15_RequeuedTaskCalled ==
  \E w \in Workers :
    /\ workers[w].pc = "in_fn" /\ workers[w].attempt = 0
    /\ burst[workers[w].task.task_id].n = 1
    /\ burst[workers[w].task.task_id].calls = NumRetries + 2
    /\ now >= workers[w].got_at + 1

\* The places of run_worker at which the worker holds a task it has taken.
HoldingPcs == {"check1", "sleeping", "run", "in_fn", "backoff"}

\* The tuple e is in the queue q or in the hands of one of the workers ws.
HeldIn(q, ws, e) ==
  \/ \E i \in 1..Len(q) : q[i] = e
  \/ \E w \in Workers : ws[w].pc \in HoldingPcs /\ ws[w].task = e

\* The task tuples in the queue or in the hands of a worker.
TuplesAt(q, ws) ==
  {q[i] : i \in {j \in 1..Len(q) : ~q[j].stop}}
    \cup {ws[w].task : w \in {v \in Workers : ws[v].pc \in HoldingPcs}}

\* C16: on one dequeue fn is called at most num_retries + 1 times, each
\* failure is followed by a wait of 2**(failures so far), the first success
\* ends the attempts, and after the last failure the identical tuple is put
\* back; a tuple whose version is the latest leaves the queue and the workers
\* only when its fn has returned.
C16_FailedTasksPersist ==
  [][/\ \A w \in Workers :
          /\ Calls(w) => workers[w].attempt <= NumRetries
          /\ workers[w].pc = "in_fn" /\ workers'[w].pc = "backoff" =>
               /\ workers'[w].wake_at = now + Pow2(workers[w].attempt)
               /\ workers'[w].task = workers[w].task
          /\ workers[w].pc = "backoff" /\ workers'[w].pc = "run" =>
               /\ now >= workers[w].wake_at
               /\ workers'[w].attempt = workers[w].attempt + 1
          /\ workers[w].pc = "in_fn" /\ workers'[w].pc = "get" =>
               ~HeldIn(queue', workers', workers[w].task)
          /\ workers[w].pc = "backoff" /\ workers'[w].pc = "get" =>
               /\ workers[w].attempt = NumRetries
               /\ now >= workers[w].wake_at
               /\ Len(queue') = Len(queue) + 1
               /\ \E i \in 1..Len(queue') : queue'[i] = workers[w].task
     /\ \A e \in TuplesAt(queue, workers) :
          tasks[e.task_id] = e.version =>
            \/ HeldIn(queue', workers', e)
            \/ tasks'[e.task_id] > e.version
            \/ \E w \in Workers :
                 /\ workers[w].task = e /\ workers[w].pc = "in_fn"
                 /\ workers'[w].pc = "get"]_vars

\* A task that failed all its attempts is back in the queue as it was
\* submitted, and still the latest version.
C16_TuplePutBack ==
  \E i \in 1..Len(queue) :
    /\ ~queue[i].stop
    /\ burst[queue[i].task_id].calls = NumRetries + 1
    /\ burst[queue[i].task_id].n = 1
    /\ burst[queue[i].task_id].failed
    /\ tasks[queue[i].task_id] = queue[i].version
    /\ queue[i].time = burst[queue[i].task_id].first_ready
    /\ queue[i].args = burst[queue[i].task_id].last_args

\* C17: fn of a task is never called while another tuple of the latest
\* version with a strictly earlier ready time waits, submitted and with no
\* call of its fn made yet.
C17_ReadyOrder ==
  [][\A w \in Workers :
       Calls(w) =>
         ~\E e \in TuplesAt(queue, workers) :
            /\ e.time < workers[w].task.time
            /\ tasks[e.task_id] = e.version
            /\ burst[e.task_id].calls = 0]_vars

\* fn of a task has just been called at the end of the worker's sleep while
\* a tuple that became ready before it, and before this call, is still in
\* the queue, of the latest version and never called.
C17_LaterTaskRunsFirst ==
  \E w \in Workers, i \in 1..Len(queue) :
    /\ workers[w].pc = "in_fn" /\ workers[w].attempt = 0
    /\ now = workers[w].wake_at
    /\ ~queue[i].stop
    /\ queue[i].time < workers[w].task.time
    /\ tasks[queue[i].task_id] = queue[i].version
    /\ burst[queue[i].task_id].calls = 0

\* C18: a stop(finish_ongoing_tasks=True) that has put its sentinels and
\* waits in its joins comes to return, with run_state STOPPED, whatever the
\* pending tasks and whether their fn returns or keeps raising.
C18_GracefulStopReturns == (stopper = "joining") ~> (run_state = "STOPPED")

\* While stop waits in its joins, a task that failed all its attempts is back
\* in the queue ahead of the sentinels.
C18_FailedTaskAheadOfSentinel ==
  /\ stopper = "joining"
  /\ Len(queue) >= 2
  /\ ~queue[1].stop /\ queue[2].stop
  /\ burst[queue[1].task_id].calls >= NumRetries + 1
  /\ burst[queue[1].task_id].failed
  /\ tasks[queue[1].task_id] = queue[1].version

\* C19: stop(finish_ongoing_tasks=False) on a running queue raises nothing,
\* leaves nothing in the queue but the sentinels it puts, and goes on to its
\* joins.
C19_ImmediateStopDiscards ==
  [][/\ api'.flip # api.flip
     /\ api'.op = "stop" /\ api'.arg = "False"
     /\ run_state = "RUNNING"
     => /\ api'.raised = NoErr
        /\ stopper' = "joining"
        /\ \A i \in 1..Len(queue') : queue'[i].stop]_vars

\* stop(finish_ongoing_tasks=False) has raised on a running queue: the
\* pending task is still in the queue, no sentinel was put, and the queue is
\* still RUNNING with no stop under way.
C19_ImmediateStopRaised ==
  /\ api.op = "stop" /\ api.arg = "False" /\ api.raised = "AttributeError"
  /\ run_state = "RUNNING" /\ stopper = "none"
  /\ queue # <<>> /\ \A i \in 1..Len(queue) : ~queue[i].stop

\* The worker w leaves the locked part of _upload_file in this step.
UploadStep(w) ==
  /\ workers[w].pc = "in_fn" /\ workers[w].task.fn = "_upload_file"
  /\ workers[w].fn_pc = "locked" /\ workers'[w].fn_pc # "locked"

\* After this step the cache holds body under the id new and nothing under
\* the id old.
Rekeyed(old, new, body) ==
  /\ ~has(cache', old)
  /\ has(cache', new)
  /\ new \in DOMAIN cache'.disk /\ cache'.disk[new] = body

\* C20: the file_id of a File changes only in an _upload_file that returns;
\* when an _upload_file returns, the cache has no entry under the old id and
\* holds the uploaded body under the new id of the File; when the upload is
\* refused, the File objects and the cache stay as they were (the cache.get
\* before the upload having changed no entry of the cache).
C20_RekeyOnUpload ==
  [][/\ \A h \in 1..Len(files) :
          files'[h].file_id # files[h].file_id =>
            \E w \in Workers :
              /\ UploadStep(w) /\ workers[w].file = h
              /\ workers'[w].pc = "get"
     /\ \A w \in Workers :
          /\ UploadStep(w) /\ workers'[w].pc = "get" =>
               /\ files'[workers[w].file].file_id
                    # files[workers[w].file].file_id
               /\ Rekeyed(files[workers[w].file].file_id,
                          files'[workers[w].file].file_id,
                          workers[w].content)
          /\ UploadStep(w) /\ b2'.uploads = b2.uploads =>
               files' = files /\ cache' = cache
          /\ workers[w].fn_pc = "start" /\ workers'[w].fn_pc # "start" =>
               /\ files' = files
               /\ cache'.index = cache.index /\ cache'.disk = cache.disk]_vars

\* The only call of _upload_file made so far has raised, and the worker is
\* in its backoff, yet the one upload the store accepted has given a File its
\* server id and the cache holds the body under it.
C20_RekeyedByFailedUpload ==
  \E w \in Workers, h \in 1..Len(files) :
    /\ workers[w].pc = "backoff" /\ workers[w].attempt = 0
    /\ workers[w].task.fn = "_upload_file"
    /\ \A t \in DOMAIN burst :
         burst[t].calls = IF t = workers[w].task.task_id THEN 1 ELSE 0
    /\ b2.uploads = 1
    /\ files[h].file_id = fileId(1)
    /\ has(cache, fileId(1))

\* C21: the bytes an _upload_file sends to the store are the body the cache
\* holds for the file when the upload is made under the file lock.
C21_UploadSendsLockedBody ==
  [][\A w \in Workers :
       UploadStep(w) /\ b2'.uploads = b2.uploads + 1 =>
         LET file_id == files[workers[w].file].file_id
         IN has(cache, file_id) /\ file_id \in DOMAIN cache.disk =>
              b2'.objects[fileId(b2.uploads + 1)].content
                = cache.disk[file_id]]_vars

\* A write has returned and no call followed it, no task is queued or in the
\* hands of a worker, the file carries the id of the last upload, and both
\* the stored object and the cached body differ from the body the write
\* left: the upload had read the body before the write took the file lock.
C21_WriteLostToUpload ==
  /\ Returned("write")
  /\ queue = <<>>
  /\ \A w \in Workers : workers[w].pc \in {"none", "get"}
  /\ b2.uploads > 0
  /\ LET file_id == files[root[fuse.path]].file_id
         written == Splice(fuse.content, fuse.data, fuse.offset)
     IN /\ file_id = fileId(b2.uploads)
        /\ Len(written) <= cache.cache_size
        /\ b2.objects[file_id].content # written
        /\ has(cache, file_id) /\ file_id \in DOMAIN cache.disk
        /\ cache.disk[file_id] # written

\* body cut or NUL-padded to length bytes.
Truncated(body, length) ==
  Slice(body, 0, length) \o Fill(Max(length - Len(body), 0), 0)

\* C22: at the return of truncate(path, n) the size of the file is n and a
\* read of the file to its end returns n bytes: the old body cut to n bytes
\* or padded with NUL bytes up to n.
C22_TruncateLaw ==
  [][fuse'.op = "truncate" /\ fuse'.n # fuse.n /\ fuse'.raised = NoErr =>
       LET r == read(root', files', cache', b2', fuse'.path, 0, 0)
       IN /\ files'[root'[fuse'.path]].st_size = fuse'.offset
          /\ r.raised = NoErr
          /\ r.ret = Truncated(fuse'.content, fuse'.offset)]_vars

\* truncate(path, n) has returned with n below the length of the body, and a
\* read to the end still returns the whole old body, more than the n bytes
\* that st_size tells.
C22_TruncateKeepsBody ==
  /\ Returned("truncate")
  /\ 0 < fuse.offset /\ fuse.offset < Len(fuse.content)
  /\ files[root[fuse.path]].st_size = fuse.offset
  /\ LET r == ReadNow(fuse.path, 0, 0)
     IN r.raised = NoErr /\ r.ret = fuse.content

\* The File h of the tree has been written and its upload has not completed:
\* an _upload_file tuple of the latest version for its id and path is in the
\* queue or in the hands of a worker.
Dirty(h) ==
  \E e \in TuplesAt(queue, workers) :
    /\ e.fn = "_upload_file"
    /\ e.task_id = files[h].file_id
    /\ tasks[e.task_id] = e.version
    /\ root[e.args] = h

\* C23: the cache holds the body of every file that has been written and
\* whose upload has not completed.
C23_DirtyBodyCached ==
  \A h \in 1..Len(files) :
    Dirty(h) => /\ has(cache, files[h].file_id)
                /\ files[h].file_id \in DOMAIN cache.disk

\* A write to one file has returned and has pushed out of the cache the body
\* of another file, which fits the cache and whose upload is still to come.
C23_DirtyBodyEvicted ==
  /\ Returned("write")
  /\ \E h \in 1..Len(files) :
       /\ Dirty(h)
       /\ h # root[fuse.path]
       /\ 0 < files[h].st_size /\ files[h].st_size <= cache.cache_size
       /\ ~has(cache, files[h].file_id)
       /\ has(cache, files[root[fuse.path]].file_id)

\* --------------------------------------------------------------- SpecLocks
\* read, write, rename, unlink, submit_task and cancel_task called from two
\* FUSE threads while a worker runs run_worker with fn = _upload_file, one
\* step per lock operation and per call made between two lock operations.
lkRest == <<cacheVars, tqVars, tqObs, root, files, b2, fuse, dirs, dcall, race>>

InitLocks ==
  /\ InitCacheVars(CacheQuota)
  /\ InitTQVars(NumWorkers, TaskIds)
  /\ InitFSVars

\* The locks thread t holds.
Held(t) == {l \in LkLocks : lk.holder[l] = t}

\* The statement thread t is at ("" when it is between two calls).
At(t) == IF lk.th[t].prog = <<>> THEN "" ELSE Head(lk.th[t].prog)

\* The lock the with statement thread t is at names.
LockAt(t) ==
  CASE At(t) = "with_file" -> <<"file", lk.file_id>>
    [] At(t) = "with_task" -> <<"task", lk.th[t].task_id>>
    [] At(t) = "with_mutex" -> <<"mutex", 0>>

Released(holder, ls) == [l \in LkLocks |-> IF l \in ls THEN "" ELSE holder[l]]

\* A FUSE thread between two calls makes the call op (task_id is the id given
\* to a submit_task or cancel_task made from outside write).
LkCall(t, op, task_id) ==
  /\ At(t) = ""
  /\ lk.calls < MaxLkCalls
  /\ lk' = [lk EXCEPT !.th[t].prog = LkSteps(op),
                      !.th[t].task_id = task_id,
                      !.calls = @ + 1]
  /\ UNCHANGED lkRest

\* with lock: the lock object is looked up ...
LkWant(t) ==
  /\ At(t) \in {"with_file", "with_task", "with_mutex"}
  /\ lk.th[t].want = NoLock
  /\ lk' = [lk EXCEPT !.th[t].want = LockAt(t)]
  /\ UNCHANGED lkRest

\* ... and taken once nobody holds it (threading.Lock is not reentrant).
LkAcquire(t) ==
  /\ lk.th[t].want # NoLock
  /\ lk.holder[lk.th[t].want] = ""
  /\ lk' = [lk EXCEPT !.holder[lk.th[t].want] = t,
                      !.th[t].want = NoLock,
                      !.th[t].prog = Tail(@)]
  /\ UNCHANGED lkRest

\* The end of a with block.
LkUnlock(t) ==
  /\ At(t) \in {"unlock_file", "unlock_task", "unlock_mutex"}
  /\ LET kind == CASE At(t) = "unlock_file" -> "file"
                   [] At(t) = "unlock_task" -> "task"
                   [] At(t) = "unlock_mutex" -> "mutex"
     IN lk' = [lk EXCEPT
                 !.holder = Released(@, {l \in Held(t) : l[1] = kind}),
                 !.th[t].prog = Tail(@)]
  /\ UNCHANGED lkRest

\* queue.get under the mutex: an empty queue makes the thread wait on
\* not_empty, which gives the mutex up and takes it again on waking.
LkGet(t) ==
  /\ At(t) = "get"
  /\ lk' = IF lk.queue = <<>>
           THEN [lk EXCEPT !.holder = Released(@, {<<"mutex", 0>>}),
                           !.th[t].prog = <<"with_mutex">> \o @]
           ELSE [lk EXCEPT !.queue = Tail(@),
                           !.th[t].task_id = Head(lk.queue),
                           !.th[t].prog = Tail(@)]
  /\ UNCHANGED lkRest

\* queue.put under the mutex
LkPut(t) ==
  /\ At(t) = "put"
  /\ lk' = [lk EXCEPT !.queue = Append(@, lk.th[t].task_id),
                      !.th[t].prog = Tail(@)]
  /\ UNCHANGED lkRest

\* run_worker's version check under the task's lock: a superseded tuple is
\* dropped with task_done() inside the with block.
LkCheck(t, newer) ==
  /\ At(t) = "check"
  /\ lk' = [lk EXCEPT !.th[t].prog =
              IF newer
              THEN <<"with_mutex", "task_done", "unlock_mutex", "unlock_task",
                     "loop">>
              ELSE Tail(@)]
  /\ UNCHANGED lkRest

\* Whether the object store still accepts an upload.
LkRoom == lk.file_id < MaxLkUploads

\* A statement that takes no lock returns.
LkReturn(t) ==
  /\ At(t) \in {"download_file", "upload_file", "delete_file", "cache",
                "create", "update", "task_id", "bump", "task_done", "sleep",
                "backoff", "fn", "fn_end", "loop"}
  /\ At(t) = "upload_file" => LkRoom
  /\ lk' = [lk EXCEPT
              !.th[t].prog = IF At(t) = "loop" THEN run_worker_steps ELSE Tail(@),
              !.th[t].task_id = IF At(t) = "task_id" THEN lk.file_id ELSE @,
              !.th[t].in_fn = CASE At(t) = "fn" -> TRUE
                                [] At(t) = "fn_end" -> FALSE
                                [] OTHER -> @,
              !.file_id = IF At(t) = "update" THEN @ + 1 ELSE @]
  /\ UNCHANGED lkRest

\* A call to the object store or to the cache raises: the with blocks around
\* it release their locks; a FUSE call ends, a worker catches the exception
\* of fn and sleeps.
LkRaise(t) ==
  /\ At(t) \in {"download_file", "upload_file", "delete_file", "cache"}
  /\ lk' = [lk EXCEPT
              !.holder = Released(@, Held(t)),
              !.th[t].prog = IF t \in LkWorkers THEN <<"backoff", "retry">>
                             ELSE <<>>,
              !.th[t].in_fn = FALSE]
  /\ UNCHANGED lkRest

\* After the sleep run_worker calls fn again, or, out of attempts, puts the
\* tuple back.
LkRetry(t, again) ==
  /\ At(t) = "retry"
  /\ lk' = [lk EXCEPT !.th[t].prog =
              IF again
              THEN <<"fn">> \o _upload_file_steps \o <<"fn_end">> \o
                   task_done_steps
              ELSE <<"with_mutex", "put", "unlock_mutex">> \o task_done_steps]
  /\ UNCHANGED lkRest

NextLocks ==
  \/ \E t \in LkFuse, op \in LkOps, task_id \in LkIds : LkCall(t, op, task_id)
  \/ \E t \in LkThreads : LkWant(t)
  \/ \E t \in LkThreads : LkAcquire(t)
  \/ \E t \in LkThreads : LkUnlock(t)
  \/ \E t \in LkThreads : LkGet(t)
  \/ \E t \in LkThreads : LkPut(t)
  \/ \E t \in LkThreads, newer \in BOOLEAN : LkCheck(t, newer)
  \/ \E t \in LkThreads : LkReturn(t)
  \/ \E t \in LkThreads : LkRaise(t)
  \/ \E t \in LkThreads, again \in BOOLEAN : LkRetry(t, again)

\* Every call a thread is in returns or raises, and a thread waiting for a
\* lock gets it when the lock is free again and again: the holders sleep
\* (run_worker's backoff) or wait on a condition (queue.get) between two
\* acquisitions.
FairLocks ==
  \A t \in LkThreads :
    /\ WF_vars(LkWant(t))
    /\ SF_vars(LkAcquire(t))
    /\ WF_vars(LkUnlock(t))
    /\ WF_vars(LkGet(t))
    /\ WF_vars(LkPut(t))
    /\ WF_vars(\E newer \in BOOLEAN : LkCheck(t, newer))
    /\ WF_vars(LkReturn(t) \/ LkRaise(t))
    /\ WF_vars(\E again \in BOOLEAN : LkRetry(t, again))

SpecLocks == InitLocks /\ [][NextLocks]_vars /\ FairLocks

\* The two classes of locks: the per-file locks, then the task queue's.
LockClass(l) == IF l[1] = "file" THEN 0 ELSE 1

Wants(t) == lk.th[t].want # NoLock

\* C24: locks are taken per-file lock first, then the task queue's locks; no
\* per-task lock is held while fn or an object-store call runs; and a thread
\* that waits for a lock gets it.
C24_DeadlockFree ==
  /\ [](\A t \in LkThreads :
          /\ Wants(t) =>
               \A l \in Held(t) : LockClass(l) <= LockClass(lk.th[t].want)
          /\ lk.th[t].in_fn
               \/ At(t) \in {"download_file", "upload_file", "delete_file"} =>
               \A l \in Held(t) : l[1] # "task")
  /\ \A t \in LkThreads : Wants(t) ~> ~Wants(t)

\* A FUSE thread waits for the lock of the file while the worker, inside fn
\* and holding no lock of the task queue, holds it across the upload.
C24_WaitsForUpload ==
  \E t \in LkFuse :
    /\ lk.th[t].want[1] = "file"
    /\ lk.holder[lk.th[t].want] = "worker1"
    /\ At("worker1") = "upload_file"
    /\ lk.th["worker1"].in_fn

\* ------------------------------------------------------------- SpecCatchUp
\* Writes at offset 0 with time running on without end, the workers scheduled fairly,
\* and a store that may turn
\* uploads down during the first MaxFSTime seconds and accepts them after.
UploadTried(w, accepted) ==
  /\ accepted \/ now < MaxFSTime
  /\ UploadLocked(w, accepted)

NextCatchUp ==
  \/ now < MaxFSTime /\ Tick
  \/ TickShiftAt(MaxFSTime)
  \/ \E path \in Paths, data \in WriteData : FsWriteBegin(path, data, 0)
  \/ FsWriteLocked
  \/ \E w \in Workers : WorkerGet(w)
  \/ \E w \in Workers : WorkerCheck1(w)
  \/ \E w \in Workers : WorkerCheck2(w)
  \/ \E w \in Workers : WorkerCall(w)
  \/ \E w \in Workers : WorkerBackoffDone(w)
  \/ \E w \in Workers : UploadBegin(w)
  \/ \E w \in Workers : \E accepted \in BOOLEAN : UploadTried(w, accepted)

\* The step worker w is at in run_worker or _upload_file.
UploadWorkerStep(w) ==
  \/ WorkerGet(w)
  \/ WorkerCheck1(w)
  \/ WorkerCheck2(w)
  \/ WorkerCall(w)
  \/ WorkerBackoffDone(w)
  \/ UploadBegin(w)
  \/ \E accepted \in BOOLEAN : UploadTried(w, accepted)

\* Time passes and each worker thread takes the step it is at (a thread is
\* at one step at a time).
FairCatchUp ==
  /\ WF_vars((now < MaxFSTime /\ Tick) \/ TickShiftAt(MaxFSTime))
  /\ \A w \in 1..FSWorkers : WF_vars(UploadWorkerStep(w))

SpecCatchUp == InitFS /\ [][NextCatchUp]_vars /\ FairCatchUp

\* A worker asks the store for one upload more than the model has ids for.
UploadsExhausted ==
  \E w \in Workers :
    /\ workers[w].pc = "in_fn"
    /\ workers[w].fn_pc = "locked"
    /\ b2.uploads >= MaxUploads

\* The file the last write went to has a server-issued id under which the
\* store holds the body that write left, and no _upload_file tuple for its
\* path is in the queue or with a worker.
CaughtUp ==
  /\ Returned("write")
  /\ file_exists(root, fuse.path)
  /\ LET file == files[root[fuse.path]]
         written == Splice(fuse.content, fuse.data, fuse.offset)
     IN /\ file.file_id \in DOMAIN b2.objects
        /\ b2.objects[file.file_id].name = fuse.path
        /\ b2.objects[file.file_id].content = written
  /\ \A e \in TuplesAt(queue, workers) :
       ~(e.fn = "_upload_file" /\ e.args = fuse.path)

\* C25: if the calls end with a write that returned, then (the store accepts
\* every upload from time MaxFSTime on) at some time the store holds the body
\* that write left under the id the file carries, and no upload of the file
\* is left in the queue.
C25_UploadsCatchUp ==
  []~UploadsExhausted /\ <>[]Returned("write") => <>CaughtUp

\* The last write has returned, its body fits the cache, the queue is empty
\* and every worker waits in queue.get(), yet the store does not hold the
\* body that was written.
C25_AtRestNotCaughtUp ==
  /\ Returned("write")
  /\ Len(Splice(fuse.content, fuse.data, fuse.offset)) <= cache.cache_size
  /\ queue = <<>>
  /\ \A w \in Workers : workers[w].pc \in {"none", "get"}
  /\ ~CaughtUp

\* ---------------------------------------------------------------- SpecRace
\* Two threads each make one call of add_file, get, update or delete on one
\* Cache, one statement of cache.py at a time (cache.py takes no lock).
RaceIds == {"a", "b"}

RaceData == {<<7>>, <<7, 7>>}

RaceOps == {"add_file", "get", "update", "delete"}

\* The caches the threads may find: empty, holding a, or holding a and b
\* and full.
RaceStarts ==
  LET c0 == NewCache(CacheQuota)
      c1 == add_file(c0, "a", <<1>>).cache
      c2 == add_file(c1, "b", <<2>>).cache
  IN {c0, c1, c2}

raceRest == <<recency, last, tqVars, tqObs, root, files, b2, fuse, dirs, dcall,
              lk>>

InitRace ==
  /\ cache \in RaceStarts
  /\ recency = <<>>
  /\ last = NoCall
  /\ InitTQVars(NumWorkers, TaskIds)
  /\ root = [p \in Paths |-> 0]
  /\ files = <<>>
  /\ b2 = [objects |-> <<>>, uploads |-> 0, deletes |-> {}]
  /\ fuse = NoCallYet
  /\ dirs = NewTree
  /\ dcall = NoDirCall
  /\ lk = NoLocks
  /\ race = NewRace(cache)

\* The statement a call starts at.
FirstPc(op) ==
  CASE op = "add_file" -> "write_file"
    [] op = "get" -> "has"
    [] op = "update" -> "contains"
    [] op = "delete" -> "remove"

\* Thread t enters a method of the cache.
RaceCall(t, op, file_id, data) ==
  /\ race.th[t].pc = "idle"
  /\ race' = [race EXCEPT !.th[t] =
       [NoCacheCall EXCEPT !.op = op, !.file_id = file_id,
                           !.data = IF op \in {"add_file", "update"}
                                    THEN data ELSE <<>>,
                           !.offset = IF op = "update" THEN 1 ELSE 0,
                           !.pc = FirstPc(op)]]
  /\ UNCHANGED <<cache, raceRest>>

\* The thread goes on to the statement pc.
Goes(th, pc) == [th EXCEPT !.pc = pc]

\* The statement raises and the call ends.
Raises(th, raised) == [th EXCEPT !.pc = "done", !.raised = raised]

\* One statement of Cache.add_file, _add_to_index and _recover_disk_space.
RaceAddFile(t) ==
  LET th == race.th[t]
      id == th.file_id
  IN /\ th.op = "add_file"
     /\ th.pc \in {"write_file", "touch_file", "index", "recover", "remove",
                   "del"}
     /\ CASE th.pc = "write_file" ->
               /\ cache' = [cache EXCEPT !.disk = PutKey(@, id, th.data)]
               /\ race' = [race EXCEPT !.th[t] = Goes(th, "touch_file")]
          [] th.pc = "touch_file" ->
               /\ cache' = touch_file(cache, id)
               /\ race' = [race EXCEPT !.th[t] = Goes(th, "index")]
          [] th.pc = "index" ->
               /\ cache' = [cache EXCEPT !.index = PutKey(@, id, Len(th.data))]
               /\ race' = [race EXCEPT !.th[t] = Goes(th, "recover")]
          [] th.pc = "recover" ->
               IF used_disk_space(cache) > cache.cache_size
               THEN IF cache.touch_list = <<>>
                    THEN /\ race' = [race EXCEPT !.th[t] =
                                       Raises(th, "IndexError")]
                         /\ UNCHANGED cache
                    ELSE /\ cache' = [cache EXCEPT !.touch_list = Tail(@)]
                         /\ race' = [race EXCEPT !.th[t] =
                              [th EXCEPT !.pc = "remove",
                                         !.lru_file = Head(cache.touch_list)]]
               ELSE /\ race' = [race EXCEPT !.th[t] = Goes(th, "done")]
                    /\ UNCHANGED cache
          [] th.pc = "remove" ->
               IF th.lru_file \notin DOMAIN cache.disk
               THEN /\ race' = [race EXCEPT !.th[t] =
                                  Raises(th, "FileNotFoundError")]
                    /\ UNCHANGED cache
               ELSE /\ cache' = [cache EXCEPT !.disk = DropKey(@, th.lru_file)]
                    /\ race' = [race EXCEPT !.th[t] = Goes(th, "del")]
          [] th.pc = "del" ->
               IF th.lru_file \notin DOMAIN cache.index
               THEN /\ race' = [race EXCEPT !.th[t] = Raises(th, "KeyError")]
                    /\ UNCHANGED cache
               ELSE /\ cache' = [cache EXCEPT !.index = DropKey(@, th.lru_file)]
                    /\ race' = [race EXCEPT !.th[t] = Goes(th, "recover")]
     /\ UNCHANGED raceRest

\* One statement of Cache.get.
RaceGet(t) ==
  LET th == race.th[t]
      id == th.file_id
  IN /\ th.op = "get"
     /\ th.pc \in {"has", "touch_file", "read"}
     /\ CASE th.pc = "has" ->
               /\ race' = [race EXCEPT !.th[t] =
                    IF has(cache, id) THEN Goes(th, "touch_file")
                    ELSE Raises(th, "KeyError")]
               /\ UNCHANGED cache
          [] th.pc = "touch_file" ->
               /\ cache' = _touch_file(cache, id)
               /\ race' = [race EXCEPT !.th[t] = Goes(th, "read")]
          [] th.pc = "read" ->
               /\ race' = [race EXCEPT !.th[t] =
                    IF id \notin DOMAIN cache.disk
                    THEN Raises(th, "FileNotFoundError")
                    ELSE [th EXCEPT !.pc = "done", !.ret = cache.disk[id]]]
               /\ UNCHANGED cache
     /\ UNCHANGED raceRest

\* One statement of Cache.update (offset > 0 holds for the calls made).
RaceUpdate(t) ==
  LET th == race.th[t]
      id == th.file_id
  IN /\ th.op = "update"
     /\ th.pc \in {"contains", "touch_file", "write"}
     /\ CASE th.pc = "contains" ->
               /\ race' = [race EXCEPT !.th[t] =
                    IF contains(cache, id) THEN Goes(th, "touch_file")
                    ELSE Raises(th, "KeyError")]
               /\ UNCHANGED cache
          [] th.pc = "touch_file" ->
               /\ cache' = touch_file(cache, id)
               /\ race' = [race EXCEPT !.th[t] = Goes(th, "write")]
          [] th.pc = "write" ->
               IF id \notin DOMAIN cache.disk
               THEN /\ race' = [race EXCEPT !.th[t] =
                                  Raises(th, "FileNotFoundError")]
                    /\ UNCHANGED cache
               ELSE LET old == cache.disk[id]
                        new == Slice(old, 0, th.offset)
                                 \o Fill(Max(th.offset - Len(old), 0), 0)
                                 \o th.data
                                 \o Slice(old, th.offset + Len(th.data), Len(old))
                    IN /\ cache' = [cache EXCEPT !.disk = PutKey(@, id, new)]
                       /\ race' = [race EXCEPT !.th[t] =
                            [th EXCEPT !.pc = "done", !.ret = Len(th.data)]]
     /\ UNCHANGED raceRest

\* One statement of Cache.delete.
RaceDelete(t) ==
  LET th == race.th[t]
      id == th.file_id
  IN /\ th.op = "delete"
     /\ th.pc \in {"remove", "del"}
     /\ CASE th.pc = "remove" ->
               IF id \notin DOMAIN cache.disk
               THEN /\ race' = [race EXCEPT !.th[t] =
                                  Raises(th, "FileNotFoundError")]
                    /\ UNCHANGED cache
               ELSE /\ cache' = [cache EXCEPT !.disk = DropKey(@, id)]
                    /\ race' = [race EXCEPT !.th[t] = Goes(th, "del")]
          [] th.pc = "del" ->
               IF id \notin DOMAIN cache.index
               THEN /\ race' = [race EXCEPT !.th[t] = Raises(th, "KeyError")]
                    /\ UNCHANGED cache
               ELSE /\ cache' = [cache EXCEPT !.index = DropKey(@, id)]
                    /\ race' = [race EXCEPT !.th[t] = Goes(th, "done")]
     /\ UNCHANGED raceRest

NextRace ==
  \/ \E t \in RaceThreads, op \in RaceOps, file_id \in RaceIds,
        data \in RaceData : RaceCall(t, op, file_id, data)
  \/ \E t \in RaceThreads : RaceAddFile(t)
  \/ \E t \in RaceThreads : RaceGet(t)
  \/ \E t \in RaceThreads : RaceUpdate(t)
  \/ \E t \in RaceThreads : RaceDelete(t)

SpecRace == InitRace /\ [][NextRace]_vars

\* The call of a thread made on the cache c as a whole.
Whole(c, th) ==
  CASE th.op = "add_file" -> add_file(c, th.file_id, th.data)
    [] th.op = "get" -> get(c, th.file_id)
    [] th.op = "update" -> update(c, th.file_id, th.data, th.offset)
    [] th.op = "delete" -> delete(c, th.file_id)

\* The call of thread th ended as the result r says: the same exception, or
\* the same value returned.
SameEnd(r, th) ==
  /\ r.raised = th.raised
  /\ r.raised = NoErr => r.ret = th.ret

\* The calls of the threads first and second made one after the other leave
\* the cache as it is now and end each call as it ended.
SerialOrder(first, second) ==
  LET r1 == Whole(race.start, race.th[first])
      r2 == Whole(r1.cache, race.th[second])
  IN /\ r2.cache = cache
     /\ SameEnd(r1, race.th[first])
     /\ SameEnd(r2, race.th[second])

BothDone == \A t \in RaceThreads : race.th[t].pc = "done"

\* C26: when two calls of add_file, get, update or delete made at the same
\* time have ended, the index, the touch list and the backing files are what
\* one of the two serial orders of the calls leaves, and each call returned
\* or raised as it does in that order.
C26_CacheCallsAtomic ==
  BothDone => SerialOrder(1, 2) \/ SerialOrder(2, 1)

\* update and delete of one cached id: update finds the id in the index,
\* delete removes the file, and update fails to open it.
C26_UpdateRacesDelete ==
  /\ BothDone
  /\ race.th[1].op = "update" /\ race.th[2].op = "delete"
  /\ race.th[1].file_id = race.th[2].file_id
  /\ race.th[1].raised = "FileNotFoundError"
  /\ race.th[2].raised = NoErr

\* C27: after every call on the cache the touch list holds every id of the
\* index exactly once and no id that the index lacks.
C27_TouchListInStep ==
  /\ Range(cache.touch_list) = DOMAIN cache.index
  /\ Len(cache.touch_list) = Cardinality(DOMAIN cache.index)

\* A delete has returned and its id is still in the touch list, where the
\* next eviction will find it.
C27_DeleteLeavesTouchEntry ==
  /\ last.op = "delete"
  /\ last.raised = NoErr
  /\ last.file_id \in Range(cache.touch_list)
  /\ last.file_id \notin DOMAIN cache.index
  /\ last.file_id \notin DOMAIN cache.disk

============================================================================
